---- MODULE Spec2Model ----
(***************************************************************************)
(* A model of the confidence-routed decision core of sales-ramp-ai:        *)
(*   - StageEngineService (src/src/services/stage-engine.service.ts)       *)
(*   - AuditService       (src/src/services/audit.service.ts)              *)
(*   - AlertService       (src/src/services/alert.service.ts)              *)
(*                                                                         *)
(* Numbers.  Confidences are integers in hundredths (0.8 is 80), signal    *)
(* weights are integers in tenths (1.2 is 12), and every quotient the code *)
(* takes is compared by cross-multiplication, so the arithmetic is that    *)
(* of the exact rationals.  The clock `now` is Date.now() in whole hours.  *)
(* Fresh uuidv4() values are the successive naturals handed out by nextId  *)
(* and nextAlertId.                                                        *)
(***************************************************************************)
EXTENDS Integers, Sequences, FiniteSets, TLC

VARIABLES
    config,              \* StageEngineService.config
    signals,             \* callData.signals handed to mapToStage
    result,              \* the StageMappingResult last returned by mapToStage
    decision,            \* the ActionDecision last returned by getActionDecision
    auditConfig,         \* AuditService.config
    entries,             \* AuditService.entries, in the Map's insertion order
    entriesByCallId,     \* AuditService.entriesByCallId: callId -> audit ids
    entriesByProspectId, \* AuditService.entriesByProspectId: prospectId -> audit ids
    nextId,              \* the next value uuidv4() returns to the audit service
    auditOp,             \* the audit operation of the last step and what it returned
    imported,            \* whether importFromFile has been called
    alertConfig,         \* AlertService.config
    alerts,              \* AlertService.alerts, in the Map's insertion order
    alertsByDeal,        \* AlertService.alertsByDeal: dealId -> alert ids (<<>>: no key)
    nextAlertId,         \* the next value uuidv4() returns to the alert service
    alertOp,             \* the alert operation of the last step and what it returned
    delivery,            \* the deliverAlert call in flight, or the last one made
    stallConfig,         \* StallDetectorService.config
    stallSignals,        \* StallDetectorService.signals, in the Map's insertion order
    dealStatuses,        \* StallDetectorService.dealStatuses: dealId -> StallStatus
    nextSignalId,        \* the next value uuidv4() returns to the stall detector
    stallOp,             \* the stall detector operation of the last step
    kaiaTranscript,      \* the transcript handed to KaiaAdapter.extractSignals
    kaiaSignals,         \* the CallSignal list it returned
    kaiaOp,              \* "extractSignals" once the call has returned
    prospectStage,       \* the stage of the prospect in Outreach
    pendingConfirmations,\* webhooks.ts pendingConfirmations, in the Map's insertion order
    requests,            \* the confirm and reject requests: where each one is
    applied,             \* the stage updates the routes have applied in Outreach
    webhookOp,           \* what the last POST /kaia/call did
    now                  \* Date.now(), in hours

engineVars == <<config, signals, result, decision>>

auditVars ==
    <<auditConfig, entries, entriesByCallId, entriesByProspectId, nextId, auditOp, imported>>

alertVars == <<alertConfig, alerts, alertsByDeal, nextAlertId, alertOp, delivery>>

stallVars == <<stallConfig, stallSignals, dealStatuses, nextSignalId, stallOp>>

kaiaVars == <<kaiaTranscript, kaiaSignals, kaiaOp>>

webVars == <<prospectStage, pendingConfirmations, requests, applied, webhookOp>>

vars == <<engineVars, auditVars, alertVars, stallVars, kaiaVars, webVars, now>>

\* An absent (undefined) string-valued field.
Undefined == "undefined"

(***************************************************************************)
(* Bounds of the model.                                                    *)
(***************************************************************************)
MaxSignals == 2                    \* longest signal list handed to mapToStage
ConfLevels == {40, 60, 90}         \* confidences a signal may carry
ThresholdLevels == {30, 50, 80}    \* values a configured threshold may take
Percent == 0 .. 100                \* confidences handed to getActionDecision
MaxEntries == 2                    \* audit entries created (uuids drawn) in one run
MaxFileEntries == 1                \* entries in a file handed to importFromFile
AuditClock == {0, 100 * 24}        \* the instants (hours) the audit service is called at
MaxAlerts == 2                     \* alerts created (uuids drawn) in one run
AlertClock == {0, 23, 24, 96}      \* the instants (hours) the alert service is called at
DeliveryClock == {0, 73}           \* the instants (hours) of the runs that deliver alerts
MaxStallSignals == 2               \* stall signals created (uuids drawn) in one run
MaxSegments == 2                   \* segments of a call transcript
StallClock == {0, 48, 180}         \* the instants (hours) the stall detector is called at
DocumentDates == {0, 12}           \* callDate of the transcripts analysed
MaxRequests == 2                   \* confirm and reject requests made in one run
MaxWebhookEntries == 5             \* audit entries the webhook routes create in one run
MaxCalls == 1                      \* POST /kaia/call requests received in one run

(***************************************************************************)
(* StageEngineService                                                      *)
(***************************************************************************)
SignalTypes ==
    { "LIVE_CONVERSATION", "INTEREST_EXPRESSED", "DEMO_SCHEDULED",
      "PRICING_DISCUSSED", "SEND_PRICING_REQUEST", "OBJECTION_RAISED",
      "OBJECTION_HANDLED", "DECISION_MAKER_IDENTIFIED", "NEXT_STEPS_DEFINED",
      "NO_ANSWER", "VOICEMAIL_LEFT", "WRONG_NUMBER", "GATEKEEPER",
      "NOT_INTERESTED", "COMPETITOR_MENTIONED", "BUDGET_DISCUSSED",
      "TIMELINE_DISCUSSED", "FOLLOW_UP_REQUESTED" }

\* Weights in tenths.
DEFAULT_SIGNAL_WEIGHTS ==
    [t \in SignalTypes |->
        CASE t = "LIVE_CONVERSATION" -> 10
          [] t = "INTEREST_EXPRESSED" -> 12
          [] t = "DEMO_SCHEDULED" -> 15
          [] t = "PRICING_DISCUSSED" -> 13
          [] t = "SEND_PRICING_REQUEST" -> 10
          [] t = "OBJECTION_RAISED" -> 8
          [] t = "OBJECTION_HANDLED" -> 11
          [] t = "DECISION_MAKER_IDENTIFIED" -> 12
          [] t = "NEXT_STEPS_DEFINED" -> 11
          [] t = "NO_ANSWER" -> 9
          [] t = "VOICEMAIL_LEFT" -> 9
          [] t = "WRONG_NUMBER" -> 10
          [] t = "GATEKEEPER" -> 8
          [] t = "NOT_INTERESTED" -> 10
          [] t = "COMPETITOR_MENTIONED" -> 9
          [] t = "BUDGET_DISCUSSED" -> 11
          [] t = "TIMELINE_DISCUSSED" -> 11
          [] t = "FOLLOW_UP_REQUESTED" -> 10]

\* One StageRule.  An optional condition that the rule leaves out has its
\* has* field FALSE; every rule of the table sets minConfidence.
Rule(hasReq, req, hasAny, any, hasExcl, excl, minConf, stage, disp, flags, tasks, prio) ==
    [ hasRequired |-> hasReq, requiredSignals |-> req,
      hasAny |-> hasAny, anySignals |-> any,
      hasExclude |-> hasExcl, excludeSignals |-> excl,
      minConfidence |-> minConf,
      stage |-> stage, disposition |-> disp, flags |-> flags,
      suggestedTasks |-> tasks, priority |-> prio ]

STAGE_RULES ==
    << Rule(FALSE, {}, TRUE, {"DEMO_SCHEDULED"}, FALSE, {}, 60,
            "DEMO_SCHEDULED", "DEMO_SCHEDULED", <<>>,
            <<"Confirm demo meeting details", "Send calendar invite">>, 100),
       Rule(FALSE, {}, TRUE, {"NOT_INTERESTED"}, FALSE, {}, 70,
            "CLOSED_LOST", "NOT_INTERESTED", <<"disqualified">>, <<>>, 95),
       Rule(FALSE, {}, TRUE, {"WRONG_NUMBER"}, FALSE, {}, 80,
            "CLOSED_LOST", "WRONG_NUMBER", <<"data_quality_issue">>,
            <<"Verify contact information">>, 94),
       Rule(TRUE, {"PRICING_DISCUSSED"}, TRUE, {"INTEREST_EXPRESSED", "BUDGET_DISCUSSED"},
            FALSE, {}, 60,
            "PROPOSAL", "CONNECTED", <<>>,
            <<"Prepare proposal", "Send pricing document">>, 85),
       Rule(FALSE, {}, TRUE, {"SEND_PRICING_REQUEST"},
            TRUE, {"DEMO_SCHEDULED", "NOT_INTERESTED"}, 50,
            "NEGOTIATION", "SENT_INFO", <<"stall_flag", "needs_follow_up">>,
            <<"Send pricing information", "Schedule follow-up call in 3 days">>, 80),
       Rule(TRUE, {"LIVE_CONVERSATION"}, TRUE, {"INTEREST_EXPRESSED", "DECISION_MAKER_IDENTIFIED"},
            TRUE, {"NOT_INTERESTED"}, 60,
            "QUALIFIED", "CONNECTED", <<>>, <<"Schedule follow-up">>, 75),
       Rule(TRUE, {"OBJECTION_HANDLED"}, TRUE, {"LIVE_CONVERSATION"}, FALSE, {}, 50,
            "WORKING", "CONNECTED", <<>>, <<"Continue nurturing relationship">>, 70),
       Rule(TRUE, {"OBJECTION_RAISED"}, FALSE, {},
            TRUE, {"OBJECTION_HANDLED", "DEMO_SCHEDULED"}, 50,
            "WORKING", "FOLLOW_UP", <<"objection_unresolved", "needs_coaching_review">>,
            <<"Address objection in follow-up", "Review call with manager">>, 65),
       Rule(TRUE, {"LIVE_CONVERSATION"}, FALSE, {},
            TRUE, {"NOT_INTERESTED", "WRONG_NUMBER"}, 50,
            "WORKING", "CONNECTED", <<>>, <<>>, 60),
       Rule(FALSE, {}, TRUE, {"FOLLOW_UP_REQUESTED", "NEXT_STEPS_DEFINED"},
            TRUE, {"NOT_INTERESTED"}, 50,
            "WORKING", "CALLBACK_SCHEDULED", <<>>, <<"Schedule follow-up call">>, 55),
       Rule(FALSE, {}, TRUE, {"VOICEMAIL_LEFT"}, FALSE, {}, 70,
            "ATTEMPTED", "LEFT_VOICEMAIL", <<>>, <<"Schedule next call attempt">>, 50),
       Rule(FALSE, {}, TRUE, {"NO_ANSWER"}, FALSE, {}, 70,
            "ATTEMPTED", "NO_ANSWER", <<>>, <<"Schedule next call attempt">>, 45),
       Rule(FALSE, {}, TRUE, {"GATEKEEPER"}, TRUE, {"LIVE_CONVERSATION"}, 60,
            "ATTEMPTED", "GATEKEEPER_BLOCK", <<"gatekeeper_encountered">>,
            <<"Try different approach", "Research direct contact info">>, 40) >>

\* The constructor's configuration when no override is given.
DefaultEngineConfig ==
    [ highConfidenceThreshold |-> 80,
      mediumConfidenceThreshold |-> 50,
      enableAutoUpdate |-> TRUE,
      enableFlagging |-> TRUE ]

\* signals.filter(pred), for a set of wanted types.
RECURSIVE FilterByType(_, _)
FilterByType(sigs, types) ==
    IF sigs = <<>> THEN <<>>
    ELSE IF Head(sigs).type \in types
         THEN <<Head(sigs)>> \o FilterByType(Tail(sigs), types)
         ELSE FilterByType(Tail(sigs), types)

\* The signals that "contributed" to a rule: type in requiredSignals or anySignals.
RelevantSignals(rule, sigs) ==
    FilterByType(sigs,
        (IF rule.hasRequired THEN rule.requiredSignals ELSE {})
        \cup (IF rule.hasAny THEN rule.anySignals ELSE {}))

\* reduce((sum, s) => sum + s.confidence, 0)
RECURSIVE SumConfidence(_)
SumConfidence(sigs) ==
    IF sigs = <<>> THEN 0 ELSE Head(sigs).confidence + SumConfidence(Tail(sigs))

SignalTypeSet(sigs) == { sigs[i].type : i \in 1 .. Len(sigs) }

\* evaluateRule: the four checks in the code's order, each an early return.
EvaluateRule(rule, sigs) ==
    LET signalTypes == SignalTypeSet(sigs)
        relevant == RelevantSignals(rule, sigs)
    IN  IF rule.hasRequired /\ ~ (\A t \in rule.requiredSignals : t \in signalTypes)
        THEN FALSE
        ELSE IF rule.hasAny /\ ~ (\E t \in rule.anySignals : t \in signalTypes)
        THEN FALSE
        ELSE IF rule.hasExclude /\ (\E t \in rule.excludeSignals : t \in signalTypes)
        THEN FALSE
        ELSE IF Len(relevant) > 0
                /\ SumConfidence(relevant) < rule.minConfidence * Len(relevant)
        THEN FALSE
        ELSE TRUE

\* Stable insertion of rule r into a list already ordered by the comparator
\* (a, b) => b.priority - a.priority: r goes behind every rule that does not
\* sort after it.
RECURSIVE InsertDescending(_, _)
InsertDescending(sorted, r) ==
    IF sorted = <<>> THEN <<r>>
    ELSE IF r.priority - Head(sorted).priority > 0
         THEN <<r>> \o sorted
         ELSE <<Head(sorted)>> \o InsertDescending(Tail(sorted), r)

RECURSIVE SortDescending(_)
SortDescending(rules) ==
    IF rules = <<>> THEN <<>>
    ELSE InsertDescending(SortDescending(SubSeq(rules, 1, Len(rules) - 1)),
                          rules[Len(rules)])

\* The comparator written the wrong way round, (a, b) => a.priority - b.priority.
RECURSIVE InsertAscending(_, _)
InsertAscending(sorted, r) ==
    IF sorted = <<>> THEN <<r>>
    ELSE IF Head(sorted).priority - r.priority > 0
         THEN <<r>> \o sorted
         ELSE <<Head(sorted)>> \o InsertAscending(Tail(sorted), r)

RECURSIVE SortAscending(_)
SortAscending(rules) ==
    IF rules = <<>> THEN <<>>
    ELSE InsertAscending(SortAscending(SubSeq(rules, 1, Len(rules) - 1)),
                         rules[Len(rules)])

SortedRulesAscending == SortAscending(STAGE_RULES)

\* const sortedRules = [...STAGE_RULES].sort((a, b) => b.priority - a.priority)
SortedRules == SortDescending(STAGE_RULES)

\* The sums of calculateConfidence's loop: signal.confidence * weight, and weight.
RECURSIVE WeightedSum(_)
WeightedSum(sigs) ==
    IF sigs = <<>> THEN 0
    ELSE Head(sigs).confidence * DEFAULT_SIGNAL_WEIGHTS[Head(sigs).type]
         + WeightedSum(Tail(sigs))

RECURSIVE TotalWeight(_)
TotalWeight(sigs) ==
    IF sigs = <<>> THEN 0
    ELSE DEFAULT_SIGNAL_WEIGHTS[Head(sigs).type] + TotalWeight(Tail(sigs))

MinOf(a, b) == IF a < b THEN a ELSE b

\* calculateConfidence, in hundredths.  With W the total weight, the unrounded
\* value is X / (10 * W) hundredths, where
\*   X = 10 * weightedSum            (baseConfidence = weightedSum / W)
\*     + 10 * W * min(5 * n, 15)     (signalCountBoost = min(n * 0.05, 0.15))
\*     + W * priority                (priorityBoost = priority / 100 * 0.1)
\* capped at 1.0 and rounded half up to two decimals.
CalculateConfidence(sigs, rule) ==
    LET relevant == RelevantSignals(rule, sigs)
        n == Len(relevant)
        W == TotalWeight(relevant)
        X == 10 * WeightedSum(relevant) + 10 * W * MinOf(5 * n, 15) + W * rule.priority
        capped == MinOf(X, 1000 * W)
    IN  IF n = 0 THEN 50
        ELSE (2 * capped + 10 * W) \div (20 * W)

NoDecision == [ action |-> "none", confidenceLevel |-> "none", confidence |-> 0 ]

\* The first comparison made strict (confidence > high).
GetActionDecisionStrict(cfg, confidence) ==
    IF confidence > cfg.highConfidenceThreshold
    THEN [ action |-> IF cfg.enableAutoUpdate THEN "AUTO_UPDATE"
                      ELSE "FLAG_FOR_CONFIRMATION",
           confidenceLevel |-> "HIGH", confidence |-> confidence ]
    ELSE IF confidence >= cfg.mediumConfidenceThreshold
    THEN [ action |-> IF cfg.enableFlagging THEN "FLAG_FOR_CONFIRMATION"
                      ELSE "NO_ACTION",
           confidenceLevel |-> "MEDIUM", confidence |-> confidence ]
    ELSE [ action |-> "NO_ACTION", confidenceLevel |-> "LOW", confidence |-> confidence ]

\* getActionDecision (the reason text is left out: it is display text).
GetActionDecision(cfg, confidence) ==
    IF confidence >= cfg.highConfidenceThreshold
    THEN [ action |-> IF cfg.enableAutoUpdate THEN "AUTO_UPDATE"
                      ELSE "FLAG_FOR_CONFIRMATION",
           confidenceLevel |-> "HIGH", confidence |-> confidence ]
    ELSE IF confidence >= cfg.mediumConfidenceThreshold
    THEN [ action |-> IF cfg.enableFlagging THEN "FLAG_FOR_CONFIRMATION"
                      ELSE "NO_ACTION",
           confidenceLevel |-> "MEDIUM", confidence |-> confidence ]
    ELSE [ action |-> "NO_ACTION", confidenceLevel |-> "LOW", confidence |-> confidence ]

\* No mapToStage call has returned for the current signal list.
NoResult ==
    [ newStage |-> "none", disposition |-> Undefined, confidence |-> 0,
      flags |-> <<>>, requiresConfirmation |-> FALSE, suggestedTasks |-> <<>> ]

\* The default with calculateConfidence's base value 0.5 and no flag.
DefaultMappingResultUnflagged ==
    [ newStage |-> "WORKING", disposition |-> Undefined, confidence |-> 50,
      flags |-> <<>>, requiresConfirmation |-> TRUE,
      suggestedTasks |-> <<"Review call recording and update stage manually">> ]

\* mapToStage's return value when no rule matched.
DefaultMappingResult ==
    [ newStage |-> "WORKING", disposition |-> Undefined, confidence |-> 30,
      flags |-> <<"needs_manual_review">>, requiresConfirmation |-> TRUE,
      suggestedTasks |-> <<"Review call recording and update stage manually">> ]

\* The StageMappingResult built for a matched rule (the reasoning text is left
\* out: it is display text over the same fields).
RuleResult(rule, sigs, cfg) ==
    LET confidence == CalculateConfidence(sigs, rule)
        actionDecision == GetActionDecision(cfg, confidence)
    IN  [ newStage |-> rule.stage,
          disposition |-> rule.disposition,
          confidence |-> confidence,
          flags |-> rule.flags,
          requiresConfirmation |-> (actionDecision.action = "FLAG_FOR_CONFIRMATION"),
          suggestedTasks |-> rule.suggestedTasks ]

\* for (const rule of sortedRules) { if (evaluateRule(...)) return ... }
RECURSIVE TryRules(_, _, _)
TryRules(rules, sigs, cfg) ==
    IF rules = <<>> THEN DefaultMappingResult
    ELSE IF EvaluateRule(Head(rules), sigs)
         THEN RuleResult(Head(rules), sigs, cfg)
         ELSE TryRules(Tail(rules), sigs, cfg)

\* mapToStage(callData)
MapToStageOf(sigs, cfg) == TryRules(SortedRules, sigs, cfg)

(***************************************************************************)
(* Actions of the stage engine                                             *)
(***************************************************************************)
EngineInit ==
    /\ config = DefaultEngineConfig
    /\ signals = <<>>
    /\ result = NoResult
    /\ decision = NoDecision

\* One more extracted signal joins callData.signals; what mapToStage returned
\* for the shorter list no longer describes the list.
AddSignal ==
    /\ Len(signals) < MaxSignals
    /\ \E t \in SignalTypes, c \in ConfLevels :
          signals' = Append(signals, [type |-> t, confidence |-> c])
    /\ result' = NoResult
    /\ UNCHANGED <<config, decision, auditVars, alertVars, stallVars, now, kaiaVars, webVars>>

MapToStage ==
    /\ result' = MapToStageOf(signals, config)
    /\ UNCHANGED <<config, signals, decision, auditVars, alertVars, stallVars, now, kaiaVars, webVars>>

\* updateConfig (and the constructor's overrides): the two thresholds stay
\* ordered, medium <= high.
UpdateConfig ==
    /\ \E h \in ThresholdLevels, m \in ThresholdLevels, a \in BOOLEAN, f \in BOOLEAN :
          /\ m <= h
          /\ config' = [ highConfidenceThreshold |-> h,
                         mediumConfidenceThreshold |-> m,
                         enableAutoUpdate |-> a,
                         enableFlagging |-> f ]
    /\ decision' = NoDecision
    /\ UNCHANGED <<signals, result, auditVars, alertVars, stallVars, now, kaiaVars, webVars>>

CallGetActionDecision ==
    /\ \E c \in Percent : decision' = GetActionDecision(config, c)
    /\ UNCHANGED <<config, signals, result, auditVars, alertVars, stallVars, now, kaiaVars, webVars>>

(***************************************************************************)
(* AuditService                                                            *)
(***************************************************************************)
\* A prospectId that is undefined (or 0): `if (entry.prospectId)` is false for it.
NoProspect == 0
\* An id field that is undefined (rollbackOf of an entry that is no rollback,
\* the auditId of a failed RollbackResult, which the code sets to '').
NoId == 0

CallIds == {"call-1"}
ProspectIds == {7}
\* The id of an entry written by an earlier run of the service and met only
\* in a file, and an id that no entry carries.
ForeignId == 101
UnknownId == 999

\* The default of config.retentionDays.
RetentionDays == 90

ROLLBACKABLE_ACTIONS == {"STAGE_CHANGE", "DISPOSITION_SET"}

\* An AuditEntry.  confidence and metadata are left out: addEntry, rollback,
\* cleanup and import carry them along and never read them.
Entry(id, ts, callId, prospectId, action, prev, new, automated, confirmedBy, rollbackOf) ==
    [ id |-> id, timestamp |-> ts, callId |-> callId, prospectId |-> prospectId,
      action |-> action, previousValue |-> prev, newValue |-> new,
      automated |-> automated, confirmedBy |-> confirmedBy, rollbackOf |-> rollbackOf ]

\* The three maps of the service as one value.
Store(es, byCall, byProspect) ==
    [ entries |-> es, byCall |-> byCall, byProspect |-> byProspect ]

CurrentStore == Store(entries, entriesByCallId, entriesByProspectId)

EmptyStore ==
    Store(<<>>, [c \in CallIds |-> <<>>], [p \in ProspectIds |-> <<>>])

EntryIds(es) == { es[i].id : i \in 1 .. Len(es) }

\* this.entries.get(id): the index of the entry in the map, 0 when it is absent.
IndexOfId(es, id) ==
    IF \E i \in 1 .. Len(es) : es[i].id = id
    THEN CHOOSE i \in 1 .. Len(es) : es[i].id = id
    ELSE 0

\* this.entries.set(entry.id, entry): a new key goes last, an existing key keeps
\* its place and takes the new value.
MapSet(es, entry) ==
    IF IndexOfId(es, entry.id) = 0
    THEN Append(es, entry)
    ELSE [es EXCEPT ![IndexOfId(es, entry.id)] = entry]

\* this.entries.delete(id)
RECURSIVE MapDelete(_, _)
MapDelete(es, id) ==
    IF es = <<>> THEN <<>>
    ELSE IF Head(es).id = id THEN Tail(es)
    ELSE <<Head(es)>> \o MapDelete(Tail(es), id)

\* addEntry that skips the by-call index.
AddEntryNoCallIndex(store, entry) ==
    Store(MapSet(store.entries, entry),
          store.byCall,
          IF entry.prospectId # NoProspect
          THEN [store.byProspect EXCEPT ![entry.prospectId] = Append(@, entry.id)]
          ELSE store.byProspect)

\* addEntry (the optional append to the log file is left out: logToFile is off
\* by default and a failed write is only logged).
AddEntry(store, entry) ==
    Store(MapSet(store.entries, entry),
          [store.byCall EXCEPT ![entry.callId] = Append(@, entry.id)],
          IF entry.prospectId # NoProspect
          THEN [store.byProspect EXCEPT ![entry.prospectId] = Append(@, entry.id)]
          ELSE store.byProspect)

\* const idx = list.indexOf(id); if (idx > -1) list.splice(idx, 1)
RECURSIVE RemoveFirst(_, _)
RemoveFirst(list, id) ==
    IF list = <<>> THEN <<>>
    ELSE IF Head(list) = id THEN Tail(list)
    ELSE <<Head(list)>> \o RemoveFirst(Tail(list), id)

\* The body of cleanup's loop for one entry that is older than the cutoff.
DeleteEntry(store, entry) ==
    Store(MapDelete(store.entries, entry.id),
          [store.byCall EXCEPT ![entry.callId] = RemoveFirst(@, entry.id)],
          IF entry.prospectId # NoProspect
          THEN [store.byProspect EXCEPT ![entry.prospectId] = RemoveFirst(@, entry.id)]
          ELSE store.byProspect)

\* cleanup's loop over the map: `todo` is what the iteration has still to visit.
RECURSIVE CleanupLoop(_, _, _)
CleanupLoop(store, todo, cutoff) ==
    IF todo = <<>> THEN store
    ELSE IF Head(todo).timestamp < cutoff
         THEN CleanupLoop(DeleteEntry(store, Head(todo)), Tail(todo), cutoff)
         ELSE CleanupLoop(store, Tail(todo), cutoff)

\* cutoffDate = now minus retentionDays days.
CutoffDate(cfg, t) == t - cfg.retentionDays * 24

CleanupOf(store, cfg, t) == CleanupLoop(store, store.entries, CutoffDate(cfg, t))

\* The value rollback leaves in the log for the original entry `orig`,
\* marking the original as rolled back instead of adding an entry.
RollbackEntryInPlace(orig, newId, t, confirmedBy) ==
    [orig EXCEPT !.action = "ROLLBACK", !.confirmedBy = confirmedBy,
                 !.previousValue = orig.newValue, !.newValue = orig.previousValue,
                 !.rollbackOf = orig.id]

\* The rollback entry with previousValue and newValue not swapped.
RollbackEntryUnswapped(orig, newId, t, confirmedBy) ==
    Entry(newId, t, orig.callId, orig.prospectId, "ROLLBACK",
          orig.previousValue, orig.newValue, FALSE, confirmedBy, orig.id)

\* The rollbackEntry that rollback builds from the original entry.
RollbackEntry(orig, newId, t, confirmedBy) ==
    Entry(newId, t, orig.callId, orig.prospectId, "ROLLBACK",
          orig.newValue, orig.previousValue, FALSE, confirmedBy, orig.id)

\* The operation of a step and, for rollback, its argument and RollbackResult;
\* op is "log" for every log* method.  Unused fields keep these values.
OpResult(op, auditId) ==
    [ op |-> op, originalAuditId |-> auditId, success |-> TRUE, auditId |-> NoId,
      previousValue |-> Undefined, restoredValue |-> Undefined ]

\* The rollback test with the list of eligible actions ignored.
RollbackAllowedAnyAction(cfg, es, auditId) ==
    /\ cfg.enableRollback
    /\ IndexOfId(es, auditId) # 0

\* rollback's three early returns, passed.
RollbackAllowed(cfg, es, auditId) ==
    /\ cfg.enableRollback
    /\ IndexOfId(es, auditId) # 0
    /\ es[IndexOfId(es, auditId)].action \in ROLLBACKABLE_ACTIONS

\* JSON.stringify of a Date, and new Date(string) of it: the ISO text keeps
\* the milliseconds, which is all a Date holds.
IsoString(t) == <<"ISO-8601", t>>
ParseDate(text) == text[2]

\* One element of the exported array, and the AuditEntry importFromFile makes
\* of it (entry.timestamp = new Date(entry.timestamp)).
ToJson(entry) == [entry EXCEPT !.timestamp = IsoString(entry.timestamp)]
FromJson(json) == [json EXCEPT !.timestamp = ParseDate(json.timestamp)]

\* importFromFile's loop: addEntry for each element, in file order.
RECURSIVE ImportLoop(_, _)
ImportLoop(store, file) ==
    IF file = <<>> THEN store
    ELSE ImportLoop(AddEntry(store, FromJson(Head(file))), Tail(file))

\* An entry that an earlier run exported: it carries its own id and timestamp 0.
ForeignEntries ==
    { Entry(ForeignId, 0, "call-1", 7, "STAGE_CHANGE", "NEW", "WORKING", TRUE,
            Undefined, NoId) }

\* The files importFromFile may be handed (once in a run): arrays as exportToJson writes them
\* (ordered by timestamp, one element per id) of entries that are in the log
\* now or that an earlier run exported.
ImportFiles(es) ==
    LET candidates == { ToJson(es[i]) : i \in 1 .. Len(es) }
                      \cup { ToJson(e) : e \in ForeignEntries }
        ordered(f) ==
            \A i \in 1 .. Len(f), j \in 1 .. Len(f) :
                i < j => /\ f[i].id # f[j].id
                         /\ ParseDate(f[i].timestamp) <= ParseDate(f[j].timestamp)
    IN  { f \in UNION { [1 .. n -> candidates] : n \in 1 .. MaxFileEntries } : ordered(f) }

\* Array.prototype.sort with (a, b) => a.timestamp - b.timestamp: a stable
\* sort, entries of equal timestamp keep their order.
RECURSIVE InsertByTimestamp(_, _)
InsertByTimestamp(sorted, e) ==
    IF sorted = <<>> THEN <<e>>
    ELSE IF Head(sorted).timestamp - e.timestamp > 0
         THEN <<e>> \o sorted
         ELSE <<Head(sorted)>> \o InsertByTimestamp(Tail(sorted), e)

RECURSIVE SortByTimestamp(_)
SortByTimestamp(es) ==
    IF es = <<>> THEN <<>>
    ELSE InsertByTimestamp(SortByTimestamp(SubSeq(es, 1, Len(es) - 1)), es[Len(es)])

\* exportToJson(): the entries of the map sorted by timestamp, as JSON.
ExportToJson(es) ==
    LET sorted == SortByTimestamp(es)
    IN  [i \in 1 .. Len(sorted) |-> ToJson(sorted[i])]

\* entryIds.map(id => entries.get(id)).filter(e => e !== undefined).sort(...)
RECURSIVE LookUp(_, _)
LookUp(es, ids) ==
    IF ids = <<>> THEN <<>>
    ELSE LET i == IndexOfId(es, Head(ids))
         IN  (IF i = 0 THEN <<>> ELSE <<es[i]>>) \o LookUp(es, Tail(ids))

GetEntriesForCall(store, callId) ==
    SortByTimestamp(LookUp(store.entries, store.byCall[callId]))

GetEntriesForProspect(store, prospectId) ==
    SortByTimestamp(LookUp(store.entries, store.byProspect[prospectId]))

(***************************************************************************)
(* Actions of the audit service                                            *)
(***************************************************************************)
DefaultAuditConfig == [ retentionDays |-> RetentionDays, enableRollback |-> TRUE ]

AuditInit ==
    /\ auditConfig = DefaultAuditConfig
    /\ entries = <<>>
    /\ entriesByCallId = [c \in CallIds |-> <<>>]
    /\ entriesByProspectId = [p \in ProspectIds |-> <<>>]
    /\ nextId = 1
    /\ imported = FALSE
    /\ auditOp = OpResult("init", NoId)
    /\ now = 0

\* The tail of every log* method: addEntry(entry) with a fresh uuid, returning it.
LogEntry(entry) ==
    LET after == AddEntry(CurrentStore, entry)
    IN  /\ nextId <= MaxEntries
        /\ entries' = after.entries
        /\ entriesByCallId' = after.byCall
        /\ entriesByProspectId' = after.byProspect
        /\ nextId' = nextId + 1
        /\ auditOp' = OpResult("log", NoId)
        /\ UNCHANGED <<auditConfig, imported, now, engineVars, alertVars, stallVars, kaiaVars, webVars>>

LogStageChange ==
    \E c \in CallIds, p \in ProspectIds :
        LogEntry(
                 Entry(nextId, now, c, p, "STAGE_CHANGE", "NEW", "WORKING", TRUE,
                       Undefined, NoId))

LogDispositionSet ==
    \E c \in CallIds, p \in ProspectIds :
        LogEntry(
                 Entry(nextId, now, c, p, "DISPOSITION_SET", Undefined, "CONNECTED", TRUE,
                       Undefined, NoId))

LogNoteAdded ==
    \E c \in CallIds, p \in ProspectIds :
        LogEntry(
                 Entry(nextId, now, c, p, "NOTE_ADDED", Undefined, "note", TRUE,
                       Undefined, NoId))

LogTaskCreated ==
    \E c \in CallIds, p \in ProspectIds :
        LogEntry(
                 Entry(nextId, now, c, p, "TASK_CREATED", Undefined, "Schedule follow-up", TRUE,
                       Undefined, NoId))

LogFlagSet ==
    \E c \in CallIds, p \in ProspectIds \cup {NoProspect} :
        LogEntry(
                 Entry(nextId, now, c, p, "FLAG_SET", Undefined, "stall_flag", TRUE,
                       Undefined, NoId))

LogConfirmationRequired ==
    \E c \in CallIds, p \in ProspectIds :
        LogEntry(
                 Entry(nextId, now, c, p, "CONFIRMATION_REQUIRED", Undefined, "QUALIFIED", TRUE,
                       Undefined, NoId))

LogError ==
    \E c \in CallIds, p \in ProspectIds :
        LogEntry(
                 Entry(nextId, now, c, p, "ERROR", Undefined, "update failed", TRUE,
                       Undefined, NoId))

\* rollback(auditId, confirmedBy), refused: disabled, not found, or not an
\* action that can be rolled back.
RollbackRefused ==
    \E auditId \in EntryIds(entries) \cup {UnknownId} :
        /\ ~ RollbackAllowed(auditConfig, entries, auditId)
        /\ auditOp' = [OpResult("rollback", auditId) EXCEPT !.success = FALSE]
        /\ UNCHANGED <<auditConfig, entries, entriesByCallId, entriesByProspectId,
                       nextId, imported, now, engineVars, alertVars, stallVars, kaiaVars, webVars>>

\* rollback(auditId, confirmedBy), recorded.
RollbackRecorded ==
    \E auditId \in EntryIds(entries) :
        /\ RollbackAllowed(auditConfig, entries, auditId)
        /\ nextId <= MaxEntries
        /\ LET orig == entries[IndexOfId(entries, auditId)]
               rollbackEntry == RollbackEntry(orig, nextId, now, "rep-1")
               after == AddEntry(CurrentStore, rollbackEntry)
           IN  /\ entries' = after.entries
               /\ entriesByCallId' = after.byCall
               /\ entriesByProspectId' = after.byProspect
               /\ auditOp' = [OpResult("rollback", auditId) EXCEPT
                                 !.auditId = rollbackEntry.id,
                                 !.previousValue = orig.newValue,
                                 !.restoredValue = orig.previousValue]
        /\ nextId' = nextId + 1
        /\ UNCHANGED <<auditConfig, imported, now, engineVars, alertVars, stallVars, kaiaVars, webVars>>

Cleanup ==
    LET after == CleanupOf(CurrentStore, auditConfig, now)
    IN  /\ entries' = after.entries
        /\ entriesByCallId' = after.byCall
        /\ entriesByProspectId' = after.byProspect
        /\ auditOp' = OpResult("cleanup", NoId)
        /\ UNCHANGED <<auditConfig, nextId, imported, now, engineVars, alertVars, stallVars, kaiaVars, webVars>>

ImportFromFile ==
    \E file \in ImportFiles(entries) :
        LET after == ImportLoop(CurrentStore, file)
        IN  /\ ~ imported
            /\ imported' = TRUE
            /\ entries' = after.entries
            /\ entriesByCallId' = after.byCall
            /\ entriesByProspectId' = after.byProspect
            /\ auditOp' = OpResult("importFromFile", NoId)
            /\ UNCHANGED <<auditConfig, nextId, now, engineVars, alertVars, stallVars, kaiaVars, webVars>>

\* Time passes between two requests.
AuditTick ==
    /\ \E t \in AuditClock : t > now /\ now' = t
    /\ auditOp' = OpResult("tick", NoId)
    /\ UNCHANGED <<auditConfig, entries, entriesByCallId, entriesByProspectId,
                   nextId, imported, engineVars, alertVars, stallVars, kaiaVars, webVars>>

(***************************************************************************)
(* AlertService                                                            *)
(***************************************************************************)
\* A Date field holding null.
NoTime == -1

DealIds == {"deal-1", "deal-2"}
Severities == {"CRITICAL", "LOW"}

DefaultAlertConfig ==
    [ alertWithinHours |-> 24,
      alertExpirationHours |-> 72,
      enabledChannels |-> <<"WEBHOOK">>,
      escalateToBothOnCritical |-> TRUE,
      webhookUrl |-> Undefined ]

\* The fields of a StallStatus that generateAlert's control flow and the
\* routing of the alert read.
StallStatuses ==
    [ dealId : DealIds, isStalled : BOOLEAN, severity : Severities, hasManager : {TRUE} ]

\* The statuses of the runs that follow alerts through delivery.
DeliveryStatuses ==
    [ dealId : {"deal-1"}, isStalled : {TRUE}, severity : {"CRITICAL"}, hasManager : {TRUE} ]

MapSeverityToPriority(severity) ==
    CASE severity = "CRITICAL" -> "URGENT"
      [] severity = "HIGH" -> "HIGH"
      [] severity = "MEDIUM" -> "MEDIUM"
      [] OTHER -> "LOW"

DetermineRecipientType(cfg, status, priority) ==
    IF priority = "URGENT" /\ cfg.escalateToBothOnCritical THEN "BOTH"
    ELSE IF priority = "HIGH" /\ status.hasManager THEN "BOTH"
    ELSE "REP"

\* The test with a window one hour short.
\* The check finding no alert at all.
RecentUnackedNeverFound(cfg, as, existing, t) == FALSE

RecentUnackedShortWindow(cfg, as, existing, t) ==
    \E k \in 1 .. Len(existing) :
        LET i == IndexOfId(as, existing[k])
        IN  /\ i # 0
            /\ ~ as[i].acknowledged
            /\ t - as[i].createdAt < cfg.alertWithinHours - 1

\* The test without its look at acknowledged.
RecentUnackedIgnoringAck(cfg, as, existing, t) ==
    \E k \in 1 .. Len(existing) :
        LET i == IndexOfId(as, existing[k])
        IN  /\ i # 0
            /\ t - as[i].createdAt < cfg.alertWithinHours

\* existingAlerts.some(...): an alert of the deal that is not acknowledged and
\* was created less than alertWithinHours ago.
RecentUnacked(cfg, as, existing, t) ==
    \E k \in 1 .. Len(existing) :
        LET i == IndexOfId(as, existing[k])
        IN  /\ i # 0
            /\ ~ as[i].acknowledged
            /\ t - as[i].createdAt < cfg.alertWithinHours

\* The StallAlert generateAlert builds.
NewAlert(cfg, status, newId, t) ==
    LET priority == MapSeverityToPriority(status.severity)
    IN  [ id |-> newId,
          dealId |-> status.dealId,
          priority |-> priority,
          recipientType |-> DetermineRecipientType(cfg, status, priority),
          channels |-> cfg.enabledChannels,
          deliveredVia |-> <<>>,
          deliveredAt |-> NoTime,
          acknowledged |-> FALSE,
          acknowledgedAt |-> NoTime,
          acknowledgedBy |-> Undefined,
          createdAt |-> t,
          expiresAt |-> t + cfg.alertExpirationHours ]

\* What an alert operation leaves behind: the operation, the deal and status
\* it was called for, the id of the alert it returned (NoId for null), the
\* number cleanupExpiredAlerts returned, and whether the call repeats a
\* generateAlert for the same deal that has just returned null.
AlertOpResult(op) ==
    [ op |-> op, dealId |-> Undefined, isStalled |-> FALSE, returned |-> NoId,
      cleaned |-> 0, again |-> FALSE ]

\* One iteration of cleanupExpiredAlerts' loop.
DeleteAlert(store, alert) ==
    LET kept == SelectSeq(store.byDeal[alert.dealId], LAMBDA id : id # alert.id)
    IN  [ alerts |-> MapDelete(store.alerts, alert.id),
          byDeal |-> [store.byDeal EXCEPT ![alert.dealId] = kept],
          cleaned |-> store.cleaned + 1 ]

\* The test of cleanupExpiredAlerts with <= for <.
ExpiredOrExpiring(alert, t) == alert.expiresAt <= t

\* alert.expiresAt < now
Expired(alert, t) == alert.expiresAt < t

RECURSIVE CleanupExpiredLoop(_, _, _)
CleanupExpiredLoop(store, todo, t) ==
    IF todo = <<>> THEN store
    ELSE CleanupExpiredLoop(
             IF Expired(Head(todo), t) THEN DeleteAlert(store, Head(todo)) ELSE store,
             Tail(todo), t)

CleanupExpiredAlertsOf(as, byDeal, t) ==
    CleanupExpiredLoop([alerts |-> as, byDeal |-> byDeal, cleaned |-> 0], as, t)

\* The channel lists and webhook urls an AlertService is constructed with.
ChannelLists == { <<"WEBHOOK">>, <<"WEBHOOK", "EMAIL">> }
WebhookUrls == { Undefined, "https://hooks.example/stall" }

\* The configurations of the runs that deliver alerts: the webhook alone, with
\* and without a url, and the webhook without a url followed by e-mail.
DeliveryConfigs ==
    { [DefaultAlertConfig EXCEPT !.enabledChannels = cs, !.webhookUrl = u] :
          <<cs, u>> \in { p \in ChannelLists \X WebhookUrls :
                             Len(p[1]) = 1 \/ p[2] = Undefined } }

\* What awaiting deliverToChannel(alert, channel) can come to: the boolean the
\* channel's method returns (the webhook: whether a url is configured; the
\* e-mail, Slack and Salesforce stubs: true; an unknown channel: false), or a
\* rejection, which the catch in deliverAlert's loop is there for.
DeliverToChannel(cfg, channel) ==
    { "throw" } \cup
    { CASE channel = "WEBHOOK" ->
               IF cfg.webhookUrl = Undefined THEN "false" ELSE "true"
        [] channel \in {"EMAIL", "SLACK", "SALESFORCE_TASK"} -> "true"
        [] OTHER -> "false" }

\* A deliverAlert call: the alert it was called for, where it stands ("idle":
\* none made yet; "attempting": inside the loop over the channels; "done":
\* returned), whether it entered the loop, the channels attempted so far with
\* what each attempt came to, and the boolean returned.
NoDelivery ==
    [ alertId |-> NoId, pc |-> "idle", entered |-> FALSE, attempts |-> <<>>,
      result |-> FALSE ]

\* deliveredChannels: the channels whose attempt returned true, in order.
RECURSIVE DeliveredChannels(_)
DeliveredChannels(attempts) ==
    IF attempts = <<>> THEN <<>>
    ELSE (IF Head(attempts).outcome = "true" THEN <<Head(attempts).channel>> ELSE <<>>)
         \o DeliveredChannels(Tail(attempts))

\* The loop of deliverAlert left at the first rejection.
LoopEndsStoppingAtThrow(cfg, attempts) ==
    \/ Len(attempts) = Len(cfg.enabledChannels)
    \/ \E k \in 1 .. Len(attempts) : attempts[k].outcome = "throw"

\* Whether the loop over enabledChannels has run through.
LoopEnds(cfg, attempts) == Len(attempts) = Len(cfg.enabledChannels)

AlertInit ==
    /\ alertConfig = DefaultAlertConfig
    /\ alerts = <<>>
    /\ alertsByDeal = [d \in DealIds |-> <<>>]
    /\ nextAlertId = 1
    /\ alertOp = AlertOpResult("init")
    /\ delivery = NoDelivery

\* generateAlert(status), for a status of the given set.
GenerateAlertFor(statuses) ==
    \E status \in statuses :
        LET existing == alertsByDeal[status.dealId]
            called == [AlertOpResult("generateAlert") EXCEPT
                          !.dealId = status.dealId,
                          !.isStalled = status.isStalled]
            alert == NewAlert(alertConfig, status, nextAlertId, now)
        IN  /\ IF \/ ~ status.isStalled
                  \/ RecentUnacked(alertConfig, alerts, existing, now)
               THEN /\ alertOp' = [called EXCEPT
                                      !.again = /\ alertOp.op = "generateAlert"
                                                /\ alertOp.dealId = status.dealId
                                                /\ alertOp.isStalled
                                                /\ status.isStalled
                                                /\ alertOp.returned = NoId]
                    /\ UNCHANGED <<alerts, alertsByDeal, nextAlertId>>
               ELSE /\ nextAlertId <= MaxAlerts
                    /\ alerts' = MapSet(alerts, alert)
                    /\ alertsByDeal' =
                           [alertsByDeal EXCEPT ![status.dealId] = Append(existing, alert.id)]
                    /\ nextAlertId' = nextAlertId + 1
                    /\ alertOp' = [called EXCEPT !.returned = alert.id]
            /\ UNCHANGED <<alertConfig, delivery, now, engineVars, auditVars, stallVars, kaiaVars, webVars>>

\* generateAlert(status)
GenerateAlert == GenerateAlertFor(StallStatuses)

\* generateAlert(status) as the stall pipeline calls it before it delivers:
\* for a stalled deal.
GenerateStalledAlert == GenerateAlertFor(DeliveryStatuses)

\* acknowledgeAlert(alertId, acknowledgedBy)
AcknowledgeAlert ==
    \E alertId \in EntryIds(alerts) \cup {UnknownId} :
        LET i == IndexOfId(alerts, alertId)
        IN  /\ IF i = 0
               THEN /\ alertOp' = AlertOpResult("acknowledgeAlert")
                    /\ UNCHANGED alerts
               ELSE /\ alerts' = [alerts EXCEPT ![i] =
                                     [@ EXCEPT !.acknowledged = TRUE,
                                               !.acknowledgedAt = now,
                                               !.acknowledgedBy = "rep-1"]]
                    /\ alertOp' = [AlertOpResult("acknowledgeAlert") EXCEPT
                                      !.dealId = alerts[i].dealId,
                                      !.returned = alertId]
            /\ UNCHANGED <<alertConfig, alertsByDeal, nextAlertId, delivery, now, engineVars, auditVars, stallVars, kaiaVars, webVars>>

\* cleanupExpiredAlerts()
CleanupExpiredAlerts ==
    LET after == CleanupExpiredAlertsOf(alerts, alertsByDeal, now)
    IN  /\ alerts' = after.alerts
        /\ alertsByDeal' = after.byDeal
        /\ alertOp' = [AlertOpResult("cleanupExpiredAlerts") EXCEPT !.cleaned = after.cleaned]
        /\ UNCHANGED <<alertConfig, nextAlertId, delivery, now, engineVars, auditVars, stallVars, kaiaVars, webVars>>

\* deliverAlert without its look at acknowledged.
NeverSkipsDelivery(alert) == FALSE

\* if (alert.acknowledged): delivery is skipped.
SkipsDelivery(alert) == alert.acknowledged

\* deliverAlert(alertId), up to its first await: the alert is looked up, and
\* an unknown id or an acknowledged alert ends the call there.
DeliverAlertCall ==
    \E alertId \in EntryIds(alerts) \cup {UnknownId} :
        LET i == IndexOfId(alerts, alertId)
            call == [NoDelivery EXCEPT !.alertId = alertId, !.pc = "done"]
        IN  /\ delivery.pc # "attempting"
            /\ delivery' =
                   IF i = 0 THEN call
                   ELSE IF SkipsDelivery(alerts[i]) THEN [call EXCEPT !.result = TRUE]
                   ELSE [call EXCEPT !.pc = "attempting", !.entered = TRUE]
            /\ alertOp' = [AlertOpResult("deliverAlert") EXCEPT !.returned = alertId]
            /\ UNCHANGED <<alertConfig, alerts, alertsByDeal, nextAlertId, now,
                           engineVars, auditVars, stallVars, kaiaVars, webVars>>

\* One turn of the loop: await deliverToChannel(alert, channel) settles.
DeliverAttempt ==
    /\ delivery.pc = "attempting"
    /\ ~ LoopEnds(alertConfig, delivery.attempts)
    /\ LET channel == alertConfig.enabledChannels[Len(delivery.attempts) + 1]
       IN  \E outcome \in DeliverToChannel(alertConfig, channel) :
               delivery' = [delivery EXCEPT
                               !.attempts = Append(@, [channel |-> channel,
                                                       outcome |-> outcome])]
    /\ alertOp' = [AlertOpResult("deliverAlert") EXCEPT !.returned = delivery.alertId]
    /\ UNCHANGED <<alertConfig, alerts, alertsByDeal, nextAlertId, now,
                   engineVars, auditVars, stallVars, kaiaVars, webVars>>

\* After the loop: the alert object the call holds is given deliveredVia and,
\* when a channel delivered, deliveredAt; the object may have left the map.
DeliverFinish ==
    /\ delivery.pc = "attempting"
    /\ LoopEnds(alertConfig, delivery.attempts)
    /\ LET deliveredChannels == DeliveredChannels(delivery.attempts)
           i == IndexOfId(alerts, delivery.alertId)
       IN  /\ alerts' =
                  IF i = 0 THEN alerts
                  ELSE [alerts EXCEPT ![i] =
                           [@ EXCEPT !.deliveredVia = deliveredChannels,
                                     !.deliveredAt =
                                         IF Len(deliveredChannels) > 0 THEN now ELSE @]]
           /\ delivery' = [delivery EXCEPT !.pc = "done",
                                           !.result = Len(deliveredChannels) > 0]
    /\ alertOp' = [AlertOpResult("deliverAlert") EXCEPT !.returned = delivery.alertId]
    /\ UNCHANGED <<alertConfig, alertsByDeal, nextAlertId, now, engineVars, auditVars, stallVars, kaiaVars, webVars>>

\* Time passes between two requests, up to an instant of the given clock.
AlertTickIn(clock) ==
    /\ \E t \in clock : t > now /\ now' = t
    /\ alertOp' = AlertOpResult("tick")
    /\ UNCHANGED <<alertConfig, alerts, alertsByDeal, nextAlertId, delivery, engineVars, auditVars, stallVars, kaiaVars, webVars>>

AlertTick == AlertTickIn(AlertClock)

\* Time passes until the alerts made at hour 0 have expired.
DeliveryTick == AlertTickIn(DeliveryClock)

(***************************************************************************)
(* StallDetectorService                                                    *)
(*                                                                         *)
(* A phrase confidence is an integer in hundredths.  A time-decayed        *)
(* confidence and a stall score are integers in millionths: the decay      *)
(* factor 0.5^(hoursOld / halfLife) is taken at quarter half-lives, where  *)
(* it is 2^-k times one of 1, 2^-1/4, 2^-1/2, 2^-3/4, kept to four         *)
(* decimals.  A document is the list of the STALL_PATTERNS its text        *)
(* matches, in the order of their positions.                               *)
(***************************************************************************)
Millionths == 1000 * 1000

\* 2^(-r/4) for r = 0, 1, 2, 3, in ten-thousandths.
QuarterPowers == <<10000, 8409, 7071, 5946>>

Pattern(category, baseConfidence, phraseLabel) ==
    [ category |-> category, baseConfidence |-> baseConfidence, phraseLabel |-> phraseLabel ]

STALL_PATTERNS ==
    << Pattern("PRICING_REQUEST", 60, "send pricing"),
       Pattern("PRICING_REQUEST", 40, "price inquiry"),
       Pattern("PRICING_REQUEST", 80, "just send pricing"),
       Pattern("APPROVAL_NEEDED", 75, "need to get approval"),
       Pattern("APPROVAL_NEEDED", 80, "need executive approval"),
       Pattern("APPROVAL_NEEDED", 70, "waiting for approval"),
       Pattern("APPROVAL_NEEDED", 85, "not in budget"),
       Pattern("THINKING", 70, "let me think about it"),
       Pattern("THINKING", 65, "need time to think"),
       Pattern("THINKING", 70, "give us time to consider"),
       Pattern("TEAM_CHECK", 60, "check with my team"),
       Pattern("TEAM_CHECK", 60, "run by team"),
       Pattern("TEAM_CHECK", 65, "get team buy-in"),
       Pattern("TEAM_CHECK", 55, "discuss with team"),
       Pattern("DECISION_MAKER", 80, "talk to decision maker"),
       Pattern("DECISION_MAKER", 75, "executive decides"),
       Pattern("DECISION_MAKER", 90, "not the decision maker"),
       Pattern("DECISION_MAKER", 85, "someone else decides"),
       Pattern("CALLBACK_REQUEST", 75, "call back later"),
       Pattern("CALLBACK_REQUEST", 70, "follow up later"),
       Pattern("CALLBACK_REQUEST", 70, "touch base in weeks/months"),
       Pattern("CALLBACK_REQUEST", 80, "not the right time"),
       Pattern("CALLBACK_REQUEST", 85, "maybe next quarter/year"),
       Pattern("FOLLOWUP_PROMISE", 65, "we'll get back to you"),
       Pattern("FOLLOWUP_PROMISE", 60, "I'll let you know"),
       Pattern("FOLLOWUP_PROMISE", 70, "we'll contact you when..."),
       Pattern("INTERNAL_DISCUSSION", 70, "need to discuss internally"),
       Pattern("INTERNAL_DISCUSSION", 65, "internal discussions") >>

DefaultStallConfig ==
    [ timeDecayHalfLifeHours |-> 48,
      maxSignalAgeHours |-> 168,
      criticalThreshold |-> 80,
      highThreshold |-> 60,
      mediumThreshold |-> 40 ]

\* detectPhrases(content): the matches of each pattern, pattern by pattern,
\* then sorted by position (a stable sort).
RECURSIVE InsertByPosition(_, _)
InsertByPosition(sorted, m) ==
    IF sorted = <<>> THEN <<m>>
    ELSE IF Head(sorted).position - m.position > 0
         THEN <<m>> \o sorted
         ELSE <<Head(sorted)>> \o InsertByPosition(Tail(sorted), m)

RECURSIVE SortByPosition(_)
SortByPosition(ms) ==
    IF ms = <<>> THEN <<>>
    ELSE InsertByPosition(SortByPosition(SubSeq(ms, 1, Len(ms) - 1)), ms[Len(ms)])

RECURSIVE MatchesOfPattern(_, _, _)
MatchesOfPattern(content, p, from) ==
    IF from > Len(content) THEN <<>>
    ELSE (IF content[from] = p
          THEN << [ phrase |-> STALL_PATTERNS[p].phraseLabel,
                    category |-> STALL_PATTERNS[p].category,
                    confidence |-> STALL_PATTERNS[p].baseConfidence,
                    position |-> from ] >>
          ELSE <<>>)
         \o MatchesOfPattern(content, p, from + 1)

RECURSIVE MatchesFromPattern(_, _)
MatchesFromPattern(content, p) ==
    IF p > Len(STALL_PATTERNS) THEN <<>>
    ELSE MatchesOfPattern(content, p, 1) \o MatchesFromPattern(content, p + 1)

DetectPhrases(content) == SortByPosition(MatchesFromPattern(content, 1))

\* groupMatchesByCategory(matches): the groups in the order Object.entries
\* lists them, that of the first match of each category.
RECURSIVE GroupMatchesByCategory(_, _)
GroupMatchesByCategory(groups, matches) ==
    IF matches = <<>> THEN groups
    ELSE LET m == Head(matches)
             at == { g \in 1 .. Len(groups) : groups[g].category = m.category }
         IN  GroupMatchesByCategory(
                 IF at = {}
                 THEN Append(groups, [category |-> m.category, matches |-> <<m>>])
                 ELSE LET g == CHOOSE x \in at : TRUE
                      IN  [groups EXCEPT ![g].matches = Append(@, m)],
                 Tail(matches))

\* categoryMatches.reduce((best, current) =>
\*     current.confidence > best.confidence ? current : best)
RECURSIVE BestMatchFrom(_, _)
BestMatchFrom(best, rest) ==
    IF rest = <<>> THEN best
    ELSE BestMatchFrom(IF Head(rest).confidence > best.confidence THEN Head(rest) ELSE best,
                       Tail(rest))

BestMatch(categoryMatches) == BestMatchFrom(Head(categoryMatches), Tail(categoryMatches))

\* calculateTimeDecayedConfidence without the decay.
UndecayedConfidence(cfg, baseConfidence, signalDate, t) ==
    baseConfidence * QuarterPowers[1]

\* calculateTimeDecayedConfidence(baseConfidence, signalDate), in millionths:
\* baseConfidence * 0.5^(hoursOld / timeDecayHalfLifeHours).
CalculateTimeDecayedConfidence(cfg, baseConfidence, signalDate, t) ==
    LET hoursOld == t - signalDate
        quarters == (4 * hoursOld) \div cfg.timeDecayHalfLifeHours
        halvings == quarters \div 4
        mantissa == baseConfidence * QuarterPowers[(quarters % 4) + 1]
    IN  IF halvings >= 0 THEN mantissa \div (2 ^ halvings)
        ELSE mantissa * (2 ^ (0 - halvings))

\* calculateAggregateStrength(matches), in hundredths of the 0-10 scale.
CalculateAggregateStrength(matches) ==
    IF matches = <<>> THEN 0
    ELSE LET maxConfidence ==
                 CHOOSE c \in { matches[i].confidence : i \in 1 .. Len(matches) } :
                     \A i \in 1 .. Len(matches) : matches[i].confidence <= c
             countBonus == MinOf(Len(matches) - 1, 3) * 50
         IN  MinOf(1000, maxConfidence * 8 + countBonus)

\* The StallSignal createSignal (transcripts) and analyzeEmail build for one
\* category of a document.
CreateSignal(cfg, newId, dealId, source, sourceId, sourceTimestamp, categoryMatches, t) ==
    LET bestMatch == BestMatch(categoryMatches)
    IN  [ id |-> newId,
          dealId |-> dealId,
          source |-> source,
          sourceId |-> sourceId,
          sourceTimestamp |-> sourceTimestamp,
          phraseMatches |-> categoryMatches,
          baseConfidence |-> bestMatch.confidence,
          timeDecayedConfidence |->
              CalculateTimeDecayedConfidence(cfg, bestMatch.confidence, sourceTimestamp, t),
          aggregateStrength |-> CalculateAggregateStrength(categoryMatches),
          detectedAt |-> t ]

\* The loop over Object.entries(matchesByCategory): one signal per category,
\* each stored under a fresh uuid.
RECURSIVE SignalsOfGroups(_, _, _, _, _, _, _, _)
SignalsOfGroups(cfg, newId, dealId, source, sourceId, sourceTimestamp, groups, t) ==
    IF groups = <<>> THEN <<>>
    ELSE << CreateSignal(cfg, newId, dealId, source, sourceId, sourceTimestamp,
                         Head(groups).matches, t) >>
         \o SignalsOfGroups(cfg, newId + 1, dealId, source, sourceId, sourceTimestamp,
                            Tail(groups), t)

\* The texts of the documents analysed.
Contents == { <<8, 1>>, <<9, 8>>, <<5>>, <<>> }

\* The matches detectPhrases finds in each text, grouped by category.
MatchesByCategory ==
    [content \in Contents |-> GroupMatchesByCategory(<<>>, DetectPhrases(content))]

\* The signals one analysis of a document makes.
AnalysisOf(cfg, newId, dealId, source, sourceId, sourceTimestamp, content, t) ==
    SignalsOfGroups(cfg, newId, dealId, source, sourceId, sourceTimestamp,
                    MatchesByCategory[content], t)

\* signals.set(signal.id, signal) for each signal of a list.
RECURSIVE SetAll(_, _)
SetAll(store, new) ==
    IF new = <<>> THEN store ELSE SetAll(MapSet(store, Head(new)), Tail(new))

GetSignalsForDeal(store, dealId) == SelectSeq(store, LAMBDA sig : sig.dealId = dealId)

\* calculateDealStatus: the signals no older than maxSignalAgeHours.
ValidSignals(cfg, sigs, t) ==
    SelectSeq(sigs, LAMBDA sig : t - sig.sourceTimestamp <= cfg.maxSignalAgeHours)

RECURSIVE TotalScore(_)
TotalScore(sigs) ==
    IF sigs = <<>> THEN 0
    ELSE Head(sigs).timeDecayedConfidence * 30 + TotalScore(Tail(sigs))

\* signals.reduce((latest, s) => s.sourceTimestamp > latest.sourceTimestamp ? s : latest)
RECURSIVE LatestFrom(_, _)
LatestFrom(latest, rest) ==
    IF rest = <<>> THEN latest
    ELSE LatestFrom(IF Head(rest).sourceTimestamp > latest.sourceTimestamp
                    THEN Head(rest) ELSE latest,
                    Tail(rest))

\* calculateStallScore(signals), in millionths.
CalculateStallScore(sigs, t) ==
    IF sigs = <<>> THEN 0
    ELSE LET latestSignal == LatestFrom(Head(sigs), Tail(sigs))
             hoursSinceLatest == t - latestSignal.sourceTimestamp
             recencyBonus == IF hoursSinceLatest < 24 THEN 10
                             ELSE IF hoursSinceLatest < 48 THEN 5 ELSE 0
         IN  MinOf(100 * Millionths, TotalScore(sigs) + recencyBonus * Millionths)

\* calculateSeverity(stallScore)
CalculateSeverity(cfg, stallScore) ==
    IF stallScore >= cfg.criticalThreshold * Millionths THEN "CRITICAL"
    ELSE IF stallScore >= cfg.highThreshold * Millionths THEN "HIGH"
    ELSE IF stallScore >= cfg.mediumThreshold * Millionths THEN "MEDIUM"
    ELSE "LOW"

\* determinePrimaryCategory: the confidences of all matches summed per
\* category, in the order of first appearance; the first category of the
\* highest sum above 0 wins.
RECURSIVE CategoryScores(_, _)
CategoryScores(scores, matches) ==
    IF matches = <<>> THEN scores
    ELSE LET m == Head(matches)
             at == { g \in 1 .. Len(scores) : scores[g].category = m.category }
         IN  CategoryScores(
                 IF at = {}
                 THEN Append(scores, [category |-> m.category, score |-> m.confidence])
                 ELSE LET g == CHOOSE x \in at : TRUE
                      IN  [scores EXCEPT ![g].score = @ + m.confidence],
                 Tail(matches))

RECURSIVE AllMatches(_)
AllMatches(sigs) ==
    IF sigs = <<>> THEN <<>> ELSE Head(sigs).phraseMatches \o AllMatches(Tail(sigs))

RECURSIVE MaxCategoryFrom(_, _, _)
MaxCategoryFrom(maxCategory, maxScore, scores) ==
    IF scores = <<>> THEN maxCategory
    ELSE IF Head(scores).score > maxScore
         THEN MaxCategoryFrom(Head(scores).category, Head(scores).score, Tail(scores))
         ELSE MaxCategoryFrom(maxCategory, maxScore, Tail(scores))

DeterminePrimaryCategory(sigs) ==
    IF sigs = <<>> THEN Undefined
    ELSE MaxCategoryFrom(Undefined, 0, CategoryScores(<<>>, AllMatches(sigs)))

\* The StallStatus calculateDealStatus stores for a deal: the fields computed
\* from the signals.
NoStatus ==
    [ isStalled |-> FALSE, severity |-> "LOW", stallScore |-> 0,
      primaryCategory |-> Undefined, signalCount |-> 0, signals |-> <<>>,
      calculatedAt |-> NoTime ]

DealStatusOf(cfg, store, dealId, t) ==
    LET validSignals == ValidSignals(cfg, GetSignalsForDeal(store, dealId), t)
        stallScore == CalculateStallScore(validSignals, t)
    IN  [ isStalled |-> stallScore >= cfg.mediumThreshold * Millionths,
          severity |-> CalculateSeverity(cfg, stallScore),
          stallScore |-> stallScore,
          primaryCategory |-> DeterminePrimaryCategory(validSignals),
          signalCount |-> Len(validSignals),
          signals |-> [i \in 1 .. Len(validSignals) |-> validSignals[i].id],
          calculatedAt |-> t ]

\* The call transcripts handed to analyzeTranscript: "let me think about it
\* ... send pricing" (two categories), "need time to think ... let me think
\* about it" (one category, the second match the stronger), and a call
\* without a stall phrase.
Transcripts ==
    { [ id |-> doc[1], dealId |-> "deal-1", callDate |-> d, transcript |-> doc[2] ] :
          doc \in { <<"t-1", <<8, 1>> >>, <<"t-2", <<9, 8>> >> }, d \in DocumentDates }
    \cup { [ id |-> "t-3", dealId |-> "deal-1", callDate |-> 0, transcript |-> <<>> ] }

\* The e-mails handed to analyzeEmail: "need executive approval", sent by the
\* prospect or by the rep.
Emails ==
    { [ id |-> "e-1", dealId |-> "deal-2", sentDate |-> 0, direction |-> dir,
        content |-> <<5>> ] : dir \in {"INBOUND", "OUTBOUND"} }

\* The id under which a caller of addSignal hands in its signal.
ManualSignalId == 900

\* The signals handed to addSignal: a StallSignal object as the caller built
\* it, its timeDecayedConfidence any number.
ManualSignals ==
    { [ id |-> ManualSignalId,
        dealId |-> "deal-1",
        source |-> "CRM_NOTES",
        sourceId |-> "note-1",
        sourceTimestamp |-> 0,
        phraseMatches |-> <<>>,
        baseConfidence |-> 50,
        timeDecayedConfidence |-> c,
        aggregateStrength |-> 400,
        detectedAt |-> 0 ] :
          c \in { 0 - Millionths \div 2, Millionths \div 2 } }

StallOpResult(op, dealId, count) == [ op |-> op, dealId |-> dealId, count |-> count ]

StallInit ==
    /\ stallConfig = DefaultStallConfig
    /\ stallSignals = <<>>
    /\ dealStatuses = [d \in DealIds |-> NoStatus]
    /\ nextSignalId = 1
    /\ stallOp = StallOpResult("init", Undefined, 0)

\* The tail of analyzeTranscript and analyzeEmail: the signals are stored and
\* returned.
StoreSignals(op, dealId, new) ==
    /\ nextSignalId + Len(new) - 1 <= MaxStallSignals
    /\ stallSignals' = SetAll(stallSignals, new)
    /\ nextSignalId' = nextSignalId + Len(new)
    /\ stallOp' = StallOpResult(op, dealId, Len(new))
    /\ UNCHANGED <<stallConfig, dealStatuses, now, engineVars, auditVars, alertVars, kaiaVars, webVars>>

\* analyzeTranscript(transcript)
AnalyzeTranscript ==
    \E transcript \in Transcripts :
        StoreSignals("analyzeTranscript", transcript.dealId,
                     AnalysisOf(stallConfig, nextSignalId, transcript.dealId,
                                "CALL_TRANSCRIPT", transcript.id, transcript.callDate,
                                transcript.transcript, now))

\* analyzeEmail(email): only inbound e-mails are analysed.
AnalyzeEmail ==
    \E email \in Emails :
        StoreSignals("analyzeEmail", email.dealId,
                     IF email.direction # "INBOUND" THEN <<>>
                     ELSE AnalysisOf(stallConfig, nextSignalId, email.dealId, "EMAIL",
                                     email.id, email.sentDate, email.content, now))

\* addSignal(signal)
AddManualSignal ==
    \E signal \in ManualSignals :
        /\ stallSignals' = MapSet(stallSignals, signal)
        /\ stallOp' = StallOpResult("addSignal", signal.dealId, 1)
        /\ UNCHANGED <<stallConfig, dealStatuses, nextSignalId, now,
                       engineVars, auditVars, alertVars, kaiaVars, webVars>>

\* The deals whose status is asked for.
StallDealIds == {"deal-1"}

\* calculateDealStatus(dealId, ...)
CalculateDealStatus ==
    \E dealId \in StallDealIds :
        /\ dealStatuses' = [dealStatuses EXCEPT
                               ![dealId] = DealStatusOf(stallConfig, stallSignals, dealId, now)]
        /\ stallOp' = StallOpResult("calculateDealStatus", dealId, 0)
        /\ UNCHANGED <<stallConfig, stallSignals, nextSignalId, now,
                       engineVars, auditVars, alertVars, kaiaVars, webVars>>

\* Time passes between two requests.
StallTick ==
    /\ \E t \in StallClock : t > now /\ now' = t
    /\ stallOp' = StallOpResult("tick", Undefined, 0)
    /\ UNCHANGED <<stallConfig, stallSignals, dealStatuses, nextSignalId,
                   engineVars, auditVars, alertVars, kaiaVars, webVars>>

(***************************************************************************)
(* KaiaAdapter.extractSignals                                              *)
(*                                                                         *)
(* A text is a sequence of words of Vocabulary; a regular expression of    *)
(* SIGNAL_PATTERNS is given by the words of the vocabulary it matches.     *)
(* Confidences are in hundredths.                                          *)
(***************************************************************************)
\* The words a segment text is made of; NewLine is a line break in a text.
NewLine == "\n"
Vocabulary ==
    { "hello", "voicemail", "interested", "not interested", "schedule", "demo",
      "budget", "not available", "no answer", NewLine }

\* /\b(w1|w2|...)\b/: some word of the set occurs.
AnyOf(words) == [kind |-> "any", words |-> words, then |-> {}]
\* /\b(a1|...).*(b1|...)\b/: a word of the first set, later in the same line
\* a word of the second.
Then(first, second) == [kind |-> "then", words |-> first, then |-> second]
\* /^(?!.*w1|.*w2|...)/: no word of the set occurs in the first line.
Unless(words) == [kind |-> "unless", words |-> words, then |-> {}]

SignalPattern(type, patterns, baseConfidence) ==
    [type |-> type, patterns |-> patterns, baseConfidence |-> baseConfidence]

\* Each regular expression restricted to the vocabulary: AnyOf({}) is one
\* that no text over the vocabulary matches.
SIGNAL_PATTERNS ==
    << SignalPattern("LIVE_CONVERSATION",
                     << Unless({"voicemail", "not available"}) >>, 90),
       SignalPattern("INTEREST_EXPRESSED",
                     << AnyOf({"interested", "not interested"}), AnyOf({}), AnyOf({}) >>, 75),
       SignalPattern("DEMO_SCHEDULED",
                     << Then({"schedule"}, {"demo"}), AnyOf({}), AnyOf({}) >>, 85),
       SignalPattern("PRICING_DISCUSSED",
                     << AnyOf({"budget"}), AnyOf({}), AnyOf({}) >>, 80),
       SignalPattern("SEND_PRICING_REQUEST",
                     << AnyOf({}), AnyOf({}), AnyOf({}) >>, 70),
       SignalPattern("OBJECTION_RAISED",
                     << AnyOf({}), AnyOf({}), AnyOf({}), AnyOf({}) >>, 70),
       SignalPattern("OBJECTION_HANDLED",
                     << AnyOf({}), AnyOf({}), AnyOf({}) >>, 65),
       SignalPattern("DECISION_MAKER_IDENTIFIED",
                     << AnyOf({}), AnyOf({}), AnyOf({}) >>, 75),
       SignalPattern("NEXT_STEPS_DEFINED",
                     << AnyOf({}), AnyOf({}), AnyOf({}) >>, 70),
       SignalPattern("NO_ANSWER",
                     << AnyOf({"no answer"}), AnyOf({}) >>, 95),
       SignalPattern("VOICEMAIL_LEFT",
                     << AnyOf({"voicemail"}), AnyOf({}), AnyOf({}) >>, 90),
       SignalPattern("WRONG_NUMBER",
                     << AnyOf({}), AnyOf({}) >>, 85),
       SignalPattern("GATEKEEPER",
                     << AnyOf({}), AnyOf({"not available"}), AnyOf({}) >>, 70),
       SignalPattern("NOT_INTERESTED",
                     << AnyOf({"not interested"}), AnyOf({}), AnyOf({}) >>, 85),
       SignalPattern("COMPETITOR_MENTIONED",
                     << AnyOf({}), AnyOf({}), AnyOf({}) >>, 70),
       SignalPattern("BUDGET_DISCUSSED",
                     << AnyOf({"budget"}), AnyOf({}) >>, 75),
       SignalPattern("TIMELINE_DISCUSSED",
                     << AnyOf({}), AnyOf({}), AnyOf({}) >>, 70),
       SignalPattern("FOLLOW_UP_REQUESTED",
                     << AnyOf({}), AnyOf({}) >>, 75) >>

\* The positions of a text up to its first line break ('.' does not match one).
FirstLine(text) ==
    { i \in 1 .. Len(text) : \A k \in 1 .. i : text[k] # NewLine }

\* The positions (i, j) of a text where a Then expression matches: its first
\* word at i, its second at j, no line break in between.
ThenSpans(regex, text) ==
    { span \in (1 .. Len(text)) \X (1 .. Len(text)) :
          /\ span[1] < span[2]
          /\ text[span[1]] \in regex.words
          /\ text[span[2]] \in regex.then
          /\ \A k \in span[1] .. span[2] : text[k] # NewLine }

\* regex.test(text)
Test(regex, text) ==
    CASE regex.kind = "any"    -> \E i \in 1 .. Len(text) : text[i] \in regex.words
      [] regex.kind = "then"   -> ThenSpans(regex, text) # {}
      [] regex.kind = "unless" -> \A i \in FirstLine(text) : text[i] \notin regex.words

\* text.match(regex)[0] of a text the expression matches: the leftmost
\* match, the longest one there ('.*' is greedy); the look-ahead matches the
\* empty string.
MatchOf(regex, text) ==
    CASE regex.kind = "any" ->
            LET i == CHOOSE m \in 1 .. Len(text) :
                         /\ text[m] \in regex.words
                         /\ \A k \in 1 .. m - 1 : text[k] \notin regex.words
            IN  << text[i] >>
      [] regex.kind = "then" ->
            LET spans == ThenSpans(regex, text)
                span  == CHOOSE m \in spans :
                             \A o \in spans :
                                 \/ m[1] < o[1]
                                 \/ m[1] = o[1] /\ m[2] >= o[2]
            IN  SubSeq(text, span[1], span[2])
      [] regex.kind = "unless" -> << >>

\* The first expression of a pattern that a text matches, 0 if none does.
FirstMatching(pattern, text) ==
    IF \E r \in 1 .. Len(pattern.patterns) : Test(pattern.patterns[r], text)
    THEN CHOOSE r \in 1 .. Len(pattern.patterns) :
             /\ Test(pattern.patterns[r], text)
             /\ \A q \in 1 .. r - 1 : ~ Test(pattern.patterns[q], text)
    ELSE 0

\* The patterns of SIGNAL_PATTERNS a text matches, in the order of the list.
MatchingPatterns(text) ==
    LET matching == { p \in 1 .. Len(SIGNAL_PATTERNS) :
                          FirstMatching(SIGNAL_PATTERNS[p], text) # 0 }
    IN  [k \in 1 .. Cardinality(matching) |->
            CHOOSE p \in matching : Cardinality({ q \in matching : q < p }) = k - 1]

\* signals.find((s) => s.type === type): its index, 0 if there is none.
FindSignal(sigs, type) ==
    IF \E i \in 1 .. Len(sigs) : sigs[i].type = type
    THEN CHOOSE i \in 1 .. Len(sigs) :
             /\ sigs[i].type = type
             /\ \A k \in 1 .. i - 1 : sigs[k].type # type
    ELSE 0

\* A CallSignal; timestamp NoTime when the field is absent.
CallSignal(type, confidence, evidence, timestamp) ==
    [type |-> type, confidence |-> confidence, evidence |-> evidence,
     timestamp |-> timestamp]

\* The hundredths added to a signal whose type is matched again, and the cap.
BoostStep == 10
FullConfidence == 100

\* The boost without its cap.
BoostUncapped(confidence) == confidence + BoostStep

\* Math.min(existingSignal.confidence + 0.1, 1)
Boost(confidence) ==
    IF confidence + BoostStep < FullConfidence
    THEN confidence + BoostStep ELSE FullConfidence

\* The body of the loop over SIGNAL_PATTERNS for one segment and one pattern.
MatchSegment(sigs, segment, pattern) ==
    IF pattern.type = "LIVE_CONVERSATION" THEN sigs
    ELSE IF FirstMatching(pattern, segment.text) = 0 THEN sigs
    ELSE LET existing == FindSignal(sigs, pattern.type)
         IN  IF existing # 0
             THEN [sigs EXCEPT ![existing] =
                      CallSignal(pattern.type,
                                 Boost(sigs[existing].confidence),
                                 sigs[existing].evidence \o << "|" >> \o segment.text,
                                 sigs[existing].timestamp)]
             ELSE Append(sigs, CallSignal(pattern.type, pattern.baseConfidence,
                                          segment.text, segment.startTime))

\* The loop over SIGNAL_PATTERNS for one segment, in the order of the list;
\* a pattern the text does not match leaves the signals as they are, so the
\* loop is taken over the patterns that match, matching[k .. ].
RECURSIVE ScanPatterns(_, _, _, _)
ScanPatterns(sigs, segment, matching, k) ==
    IF k > Len(matching) THEN sigs
    ELSE ScanPatterns(MatchSegment(sigs, segment, SIGNAL_PATTERNS[matching[k]]),
                      segment, matching, k + 1)

\* The loop over the segments of the transcript.
RECURSIVE ScanSegments(_, _, _)
ScanSegments(sigs, segments, i) ==
    IF i > Len(segments) THEN sigs
    ELSE ScanSegments(ScanPatterns(sigs, segments[i],
                                   MatchingPatterns(segments[i].text), 1),
                      segments, i + 1)

\* transcript.transcript.map((s) => s.text).join(' ')
RECURSIVE FullText(_, _)
FullText(segments, i) ==
    IF i > Len(segments) THEN << >>
    ELSE segments[i].text \o FullText(segments, i + 1)

\* The body of the whole-text loop over SIGNAL_PATTERNS for one pattern.
MatchFullText(sigs, fullText, pattern) ==
    IF \E i \in 1 .. Len(sigs) : sigs[i].type = pattern.type THEN sigs
    ELSE LET r == FirstMatching(pattern, fullText)
         IN  IF r = 0 THEN sigs
             ELSE Append(sigs, CallSignal(pattern.type,
                                          (pattern.baseConfidence * 8) \div 10,
                                          MatchOf(pattern.patterns[r], fullText),
                                          NoTime))

\* The whole-text loop over SIGNAL_PATTERNS, taken over the patterns that match.
RECURSIVE ScanFullText(_, _, _, _)
ScanFullText(sigs, fullText, matching, k) ==
    IF k > Len(matching) THEN sigs
    ELSE ScanFullText(MatchFullText(sigs, fullText, SIGNAL_PATTERNS[matching[k]]),
                      fullText, matching, k + 1)

HasMultipleSpeakers(transcript) ==
    Cardinality({ transcript.transcript[i].speakerId :
                      i \in 1 .. Len(transcript.transcript) }) > 1

HasMeaningfulLength(transcript) == transcript.duration > 30

ExtractSignalsOf(transcript) ==
    LET live == IF HasMultipleSpeakers(transcript) /\ HasMeaningfulLength(transcript)
                THEN << CallSignal("LIVE_CONVERSATION", 95, << "Call duration" >>, NoTime) >>
                ELSE << >>
        bySegment == ScanSegments(live, transcript.transcript, 1)
        fullText  == FullText(transcript.transcript, 1)
    IN  ScanFullText(bySegment, fullText, MatchingPatterns(fullText), 1)

\* The texts of a segment, its speakers, and the call durations (seconds).
SegmentTexts ==
    { << "hello" >>, << "voicemail" >>, << "interested" >>, << "not interested" >>,
      << "schedule" >>, << "demo" >>, << "schedule", "demo" >>, << "budget" >>,
      << "not available" >>, << "no answer" >>, << "hello", NewLine, "voicemail" >> }
SpeakerIds == {"rep", "prospect"}
Durations == {30, 31}

\* The segment lists of at most n segments; the i-th segment starts at 10 * i.
RECURSIVE SegmentLists(_)
SegmentLists(n) ==
    IF n = 0 THEN { << >> }
    ELSE LET shorter == SegmentLists(n - 1)
         IN  shorter \cup
             { Append(segs, [speakerId |-> sp, text |-> tx, startTime |-> 10 * n]) :
                   segs \in { l \in shorter : Len(l) = n - 1 },
                   sp \in SpeakerIds, tx \in SegmentTexts }

KaiaTranscripts ==
    [callId : {"call-1"}, duration : Durations, transcript : SegmentLists(MaxSegments)]

\* No transcript handed over yet.
NoTranscript == [callId |-> Undefined, duration |-> 0, transcript |-> << >>]

KaiaInit ==
    /\ kaiaTranscript = NoTranscript
    /\ kaiaSignals = << >>
    /\ kaiaOp = "init"

\* extractSignals(transcript), called once on the transcript received.
ExtractSignals ==
    /\ kaiaOp = "init"
    /\ kaiaSignals' = ExtractSignalsOf(kaiaTranscript)
    /\ kaiaOp' = "extractSignals"
    /\ UNCHANGED <<kaiaTranscript, engineVars, auditVars, alertVars, stallVars, now, webVars>>

(***************************************************************************)
(* The webhook routes (createWebhookRoutes)                                *)
(*                                                                         *)
(* Outreach holds the stage of the prospect; the routes reach it through   *)
(* OutreachAdapter, whose calls are awaited and may fail.  A confirm       *)
(* request is a process that other requests interleave with at its awaits. *)
(***************************************************************************)
\* validTransitions of isValidTransition.
ValidTransitions(stage) ==
    CASE stage = "NEW" ->
             {"ATTEMPTED", "WORKING", "QUALIFIED", "DEMO_SCHEDULED", "CLOSED_LOST", "NURTURE"}
      [] stage = "ATTEMPTED" ->
             {"WORKING", "QUALIFIED", "DEMO_SCHEDULED", "CLOSED_LOST", "NURTURE"}
      [] stage = "WORKING" ->
             {"QUALIFIED", "DEMO_SCHEDULED", "PROPOSAL", "CLOSED_LOST", "NURTURE"}
      [] stage = "QUALIFIED" ->
             {"DEMO_SCHEDULED", "PROPOSAL", "NEGOTIATION", "CLOSED_LOST", "NURTURE"}
      [] stage = "DEMO_SCHEDULED" ->
             {"PROPOSAL", "NEGOTIATION", "CLOSED_WON", "CLOSED_LOST", "NURTURE"}
      [] stage = "PROPOSAL" -> {"NEGOTIATION", "CLOSED_WON", "CLOSED_LOST", "NURTURE"}
      [] stage = "NEGOTIATION" -> {"CLOSED_WON", "CLOSED_LOST", "NURTURE"}
      [] stage = "CLOSED_WON" -> {}
      [] stage = "CLOSED_LOST" -> {"WORKING", "NURTURE"}
      [] stage = "NURTURE" -> {"WORKING", "QUALIFIED", "DEMO_SCHEDULED"}
      [] OTHER -> {}

\* isValidTransition(currentStage, newStage)
IsValidTransition(currentStage, newStage) ==
    \/ currentStage = newStage
    \/ newStage \in ValidTransitions(currentStage)

\* shouldAutoUpdate(confidence)
ShouldAutoUpdate(cfg, confidence) ==
    cfg.enableAutoUpdate /\ confidence >= cfg.highConfidenceThreshold

\* needsConfirmation(confidence)
NeedsConfirmation(cfg, confidence) ==
    /\ confidence >= cfg.mediumConfidenceThreshold
    /\ confidence < cfg.highConfidenceThreshold

\* The entries logStageMappingResult writes, in order, with ids from firstId.
StageMappingEntries(firstId, t, callId, prospectId, previousStage, mapping, autoUpdated) ==
    LET stageChange ==
            << [action |-> "STAGE_CHANGE", prev |-> previousStage,
                new |-> mapping.newStage, automated |-> autoUpdated] >>
        dispositionSet ==
            IF mapping.disposition # Undefined
            THEN << [action |-> "DISPOSITION_SET", prev |-> Undefined,
                     new |-> mapping.disposition, automated |-> autoUpdated] >>
            ELSE << >>
        flagsSet ==
            [i \in 1 .. Len(mapping.flags) |->
                [action |-> "FLAG_SET", prev |-> Undefined,
                 new |-> mapping.flags[i], automated |-> TRUE]]
        confirmationRequired ==
            IF mapping.requiresConfirmation /\ ~ autoUpdated
            THEN << [action |-> "CONFIRMATION_REQUIRED", prev |-> Undefined,
                     new |-> mapping.newStage, automated |-> TRUE] >>
            ELSE << >>
        written == stageChange \o dispositionSet \o flagsSet \o confirmationRequired
    IN  [i \in 1 .. Len(written) |->
            Entry(firstId + i - 1, t, callId, prospectId, written[i].action,
                  written[i].prev, written[i].new, written[i].automated,
                  Undefined, NoId)]

\* addEntry for each entry of a list.
RECURSIVE AddEntries(_, _)
AddEntries(store, new) ==
    IF new = << >> THEN store
    ELSE AddEntries(AddEntry(store, Head(new)), Tail(new))

\* The configurations of the stage engine the routes run under.
RouteConfigs ==
    { [DefaultEngineConfig EXCEPT !.enableAutoUpdate = a, !.enableFlagging = f] :
          a \in BOOLEAN, f \in BOOLEAN }

\* What extractCallData hands to mapToStage: signal lists whose mapping has a
\* low, a medium and a high confidence.
CallSignalLists ==
    { << >>,
      << [type |-> "DEMO_SCHEDULED", confidence |-> 60] >>,
      << [type |-> "DEMO_SCHEDULED", confidence |-> 90] >> }

\* The x-kaia-signature header of a request: absent, the HMAC of the body, or
\* another value.
Signatures == {"none", "valid", "invalid"}

\* verifyWebhookSignature(rawBody, signature)
VerifyWebhookSignature(signature) == signature = "valid"

\* How far a request gets before the stage mapping is acted on.
Payloads ==
    {"invalid payload", "event not processed", "no prospect email",
     "prospect not found", "prospect found"}

\* The stage the prospect has in Outreach at the start.
InitialStages == {"NEW", "CLOSED_WON"}

\* The stage a rep may put in place of the suggested one.
ModifiedStages == {Undefined, "NURTURE"}

\* The confirm and reject requests of one run.
Requests == 1 .. MaxRequests

\* pendingConfirmations.get(confirmationId): its index, 0 when absent.
PendingIndex(pending, confirmationId) == IndexOfId(pending, confirmationId)

NoPending ==
    [id |-> Undefined, callId |-> Undefined, prospectId |-> NoProspect,
     suggestedStage |-> Undefined, confidence |-> 0, auditId |-> NoId]

\* A request that has not been made.
NoRequest ==
    [route |-> "none", pc |-> "idle", pending |-> NoPending,
     finalStage |-> Undefined, previousStage |-> Undefined, status |-> 0,
     auditId |-> NoId]

\* What the last POST /kaia/call did, and how many calls there have been.
WebhookOpResult(op) ==
    [op |-> op, calls |-> 0, signature |-> "none", verified |-> FALSE,
     reachedEngine |-> FALSE,
     status |-> 0, branch |-> "none", confidence |-> 0, action |-> "none",
     updated |-> FALSE, updateSuccess |-> FALSE, auditIds |-> << >>]

\* An update a route has applied to the prospect in Outreach.
Applied(route, from, to, auditId) ==
    [route |-> route, from |-> from, to |-> to, auditId |-> auditId]

WebInit ==
    /\ prospectStage = "NEW"
    /\ pendingConfirmations = << >>
    /\ requests = [r \in Requests |-> NoRequest]
    /\ applied = << >>
    /\ webhookOp = WebhookOpResult("init")

\* POST /kaia/call.  The handler's awaits (findProspectByEmail, updateProspect,
\* the log* calls, logCall) are taken in one step: the prospect's stage is the
\* one Outreach holds when the update is made.
KaiaCall ==
    /\ webhookOp.calls < MaxCalls
    /\ \E signature \in Signatures, payload \in Payloads, sigs \in CallSignalLists,
          callId \in CallIds, prospectId \in ProspectIds, updateSucceeds \in BOOLEAN :
           LET called == [WebhookOpResult("kaia/call") EXCEPT
                             !.calls = webhookOp.calls + 1,
                             !.signature = signature,
                             !.verified = (signature # "none"
                                           /\ VerifyWebhookSignature(signature))]
               stageMapping == MapToStageOf(sigs, config)
               mapped == [called EXCEPT !.reachedEngine = TRUE,
                                        !.confidence = stageMapping.confidence,
                                        !.action = GetActionDecision(
                                                       config, stageMapping.confidence).action,
                                        !.status = 200]
               shouldAutoUpdate == ShouldAutoUpdate(config, stageMapping.confidence)
               needsConfirmation == NeedsConfirmation(config, stageMapping.confidence)
               new == StageMappingEntries(nextId, now, callId, prospectId, prospectStage,
                                          stageMapping, shouldAutoUpdate)
               auditIds == [i \in 1 .. Len(new) |-> new[i].id]
               after == AddEntries(CurrentStore, new)
           IN  IF signature # "none" /\ ~ VerifyWebhookSignature(signature)
               THEN /\ webhookOp' = [called EXCEPT !.status = 401]
                    /\ UNCHANGED <<prospectStage, pendingConfirmations, applied,
                                   entries, entriesByCallId, entriesByProspectId, nextId>>
               ELSE IF payload = "invalid payload"
               THEN /\ webhookOp' = [called EXCEPT !.status = 400]
                    /\ UNCHANGED <<prospectStage, pendingConfirmations, applied,
                                   entries, entriesByCallId, entriesByProspectId, nextId>>
               ELSE IF payload = "event not processed"
               THEN /\ webhookOp' = [called EXCEPT !.status = 200]
                    /\ UNCHANGED <<prospectStage, pendingConfirmations, applied,
                                   entries, entriesByCallId, entriesByProspectId, nextId>>
               ELSE IF payload \in {"no prospect email", "prospect not found"}
               THEN /\ webhookOp' = mapped
                    /\ UNCHANGED <<prospectStage, pendingConfirmations, applied,
                                   entries, entriesByCallId, entriesByProspectId, nextId>>
               ELSE /\ nextId + Len(new) - 1 <= MaxWebhookEntries
                    /\ entries' = after.entries
                    /\ entriesByCallId' = after.byCall
                    /\ entriesByProspectId' = after.byProspect
                    /\ nextId' = nextId + Len(new)
                    /\ IF shouldAutoUpdate
                       THEN /\ prospectStage' =
                                   IF updateSucceeds THEN stageMapping.newStage
                                   ELSE prospectStage
                            /\ applied' =
                                   IF updateSucceeds
                                   THEN Append(applied,
                                               Applied("kaia/call", prospectStage,
                                                       stageMapping.newStage, auditIds[1]))
                                   ELSE applied
                            /\ webhookOp' = [mapped EXCEPT !.branch = "auto-update",
                                                           !.updated = TRUE,
                                                           !.updateSuccess = updateSucceeds,
                                                           !.auditIds = auditIds]
                            /\ UNCHANGED pendingConfirmations
                       ELSE IF needsConfirmation
                       THEN /\ pendingConfirmations' =
                                   MapSet(pendingConfirmations,
                                          [id |-> <<callId, prospectId>>,
                                           callId |-> callId,
                                           prospectId |-> prospectId,
                                           suggestedStage |-> stageMapping.newStage,
                                           confidence |-> stageMapping.confidence,
                                           auditId |-> auditIds[1]])
                            /\ webhookOp' = [mapped EXCEPT !.branch = "confirmation",
                                                           !.auditIds = auditIds]
                            /\ UNCHANGED <<prospectStage, applied>>
                       ELSE /\ webhookOp' = [mapped EXCEPT !.branch = "log only",
                                                           !.auditIds = auditIds]
                            /\ UNCHANGED <<prospectStage, pendingConfirmations, applied>>
    /\ UNCHANGED <<requests, config, signals, result, decision, auditConfig, auditOp,
                   imported, now, alertVars, stallVars, kaiaVars>>

\* The confirmation ids a request may name: the key the Kaia route stores
\* under, and one that was never stored.
ConfirmationIds == { <<c, p>> : c \in CallIds, p \in ProspectIds } \cup { <<"call-0", NoProspect>> }

\* POST /confirmations/:confirmationId/confirm, up to the await of updateProspect.
ConfirmStart(r) ==
    /\ requests[r].pc = "idle"
    /\ \E confirmationId \in ConfirmationIds, modifiedStage \in ModifiedStages :
          LET i == PendingIndex(pendingConfirmations, confirmationId)
          IN  requests' =
                  [requests EXCEPT ![r] =
                      IF i = 0
                      THEN [NoRequest EXCEPT !.route = "confirm", !.pc = "done",
                                             !.status = 404]
                      ELSE [NoRequest EXCEPT
                               !.route = "confirm", !.pc = "updating",
                               !.pending = pendingConfirmations[i],
                               !.finalStage =
                                   IF modifiedStage # Undefined THEN modifiedStage
                                   ELSE pendingConfirmations[i].suggestedStage]]
    /\ UNCHANGED <<prospectStage, pendingConfirmations, applied, webhookOp, now,
                   engineVars, auditVars, alertVars, stallVars, kaiaVars>>

\* updateProspect returns to the confirm route.
ConfirmUpdate(r) ==
    /\ requests[r].pc = "updating"
    /\ \E updateSucceeds \in BOOLEAN :
          IF updateSucceeds
          THEN /\ prospectStage' = requests[r].finalStage
               /\ applied' = Append(applied,
                                    Applied("confirm", prospectStage,
                                            requests[r].finalStage,
                                            requests[r].pending.auditId))
               /\ requests' = [requests EXCEPT ![r].pc = "logging",
                                               ![r].previousStage = prospectStage]
          ELSE /\ requests' = [requests EXCEPT ![r].pc = "done", ![r].status = 500]
               /\ UNCHANGED <<prospectStage, applied>>
    /\ UNCHANGED <<pendingConfirmations, webhookOp, now,
                   engineVars, auditVars, alertVars, stallVars, kaiaVars>>

\* The confirm route after a successful update: logStageChange, then
\* pendingConfirmations.delete.
ConfirmLog(r) ==
    /\ requests[r].pc = "logging"
    /\ nextId <= MaxWebhookEntries
    /\ LET pending == requests[r].pending
           after == AddEntry(CurrentStore,
                             Entry(nextId, now, pending.callId, pending.prospectId,
                                   "STAGE_CHANGE", requests[r].previousStage,
                                   requests[r].finalStage, FALSE, Undefined, NoId))
       IN  /\ entries' = after.entries
           /\ entriesByCallId' = after.byCall
           /\ entriesByProspectId' = after.byProspect
           /\ nextId' = nextId + 1
           /\ pendingConfirmations' =
                  MapDelete(pendingConfirmations, <<pending.callId, pending.prospectId>>)
           /\ requests' = [requests EXCEPT ![r].pc = "done", ![r].status = 200,
                                           ![r].auditId = nextId]
    /\ UNCHANGED <<prospectStage, applied, webhookOp, now, auditConfig, auditOp, imported,
                   engineVars, alertVars, stallVars, kaiaVars>>

\* POST /confirmations/:confirmationId/reject
Reject(r) ==
    /\ requests[r].pc = "idle"
    /\ \E confirmationId \in ConfirmationIds :
          LET i == PendingIndex(pendingConfirmations, confirmationId)
              pending == pendingConfirmations[i]
              after == AddEntry(CurrentStore,
                                Entry(nextId, now, pending.callId, pending.prospectId,
                                      "FLAG_SET", Undefined, "stage_change_rejected",
                                      TRUE, Undefined, NoId))
          IN  IF i = 0
              THEN /\ requests' = [requests EXCEPT ![r] =
                                      [NoRequest EXCEPT !.route = "reject", !.pc = "done",
                                                        !.status = 404]]
                   /\ UNCHANGED <<pendingConfirmations, entries, entriesByCallId,
                                  entriesByProspectId, nextId>>
              ELSE /\ nextId <= MaxWebhookEntries
                   /\ entries' = after.entries
                   /\ entriesByCallId' = after.byCall
                   /\ entriesByProspectId' = after.byProspect
                   /\ nextId' = nextId + 1
                   /\ pendingConfirmations' = MapDelete(pendingConfirmations, confirmationId)
                   /\ requests' = [requests EXCEPT ![r] =
                                      [NoRequest EXCEPT !.route = "reject", !.pc = "done",
                                                        !.pending = pending,
                                                        !.status = 200,
                                                        !.auditId = nextId]]
    /\ UNCHANGED <<prospectStage, applied, webhookOp, now, auditConfig, auditOp, imported,
                   engineVars, alertVars, stallVars, kaiaVars>>

\* POST /audit/:auditId/rollback, with confirmedBy given: auditService.rollback,
\* then updateProspectStage when a STAGE_CHANGE entry was rolled back.
RollbackRoute ==
    /\ \E auditId \in EntryIds(entries), updateSucceeds \in BOOLEAN :
          /\ RollbackAllowed(auditConfig, entries, auditId)
          /\ nextId <= MaxWebhookEntries
          /\ LET orig == entries[IndexOfId(entries, auditId)]
                 rollbackEntry == RollbackEntry(orig, nextId, now, "rep")
                 after == AddEntry(CurrentStore, rollbackEntry)
                 restoredValue == orig.previousValue
             IN  /\ entries' = after.entries
                 /\ entriesByCallId' = after.byCall
                 /\ entriesByProspectId' = after.byProspect
                 /\ nextId' = nextId + 1
                 /\ IF /\ restoredValue # Undefined
                       /\ orig.prospectId # NoProspect
                       /\ orig.action = "STAGE_CHANGE"
                       /\ updateSucceeds
                    THEN /\ prospectStage' = restoredValue
                         /\ applied' = Append(applied,
                                              Applied("rollback", prospectStage,
                                                      restoredValue, nextId))
                    ELSE UNCHANGED <<prospectStage, applied>>
    /\ UNCHANGED <<pendingConfirmations, requests, webhookOp, now, auditConfig, auditOp,
                   imported, engineVars, alertVars, stallVars, kaiaVars>>

(***************************************************************************)
(* Specifications                                                          *)
(***************************************************************************)
\* Every service as its constructor leaves it, under its default configuration.
Init == EngineInit /\ AuditInit /\ AlertInit /\ StallInit /\ KaiaInit /\ WebInit

NextEngine == AddSignal \/ MapToStage

NextRouter == UpdateConfig \/ CallGetActionDecision

NextAudit ==
    \/ LogStageChange
    \/ LogDispositionSet
    \/ LogNoteAdded
    \/ LogTaskCreated
    \/ LogFlagSet
    \/ LogConfirmationRequired
    \/ LogError
    \/ RollbackRefused
    \/ RollbackRecorded
    \/ Cleanup
    \/ ImportFromFile
    \/ AuditTick

\* mapToStage over every signal list of the bounds, default configuration.
SpecEngine == Init /\ [][NextEngine]_vars

\* getActionDecision under every configuration of the bounds.
SpecRouter == Init /\ [][NextRouter]_vars

\* The audit log under every interleaving of its operations.
SpecAudit == Init /\ [][NextAudit]_vars

NextAlert == GenerateAlert \/ AcknowledgeAlert \/ CleanupExpiredAlerts \/ AlertTick

\* The alert service, called at the instants of AlertClock.
SpecAlert == Init /\ [][NextAlert]_vars

\* An alert service constructed with one of the delivery configurations.
InitDelivery ==
    /\ EngineInit
    /\ AuditInit
    /\ alertConfig \in DeliveryConfigs
    /\ alerts = <<>>
    /\ alertsByDeal = [d \in DealIds |-> <<>>]
    /\ nextAlertId = 1
    /\ alertOp = AlertOpResult("init")
    /\ delivery = NoDelivery
    /\ StallInit
    /\ KaiaInit
    /\ WebInit

NextDelivery ==
    \/ GenerateStalledAlert
    \/ AcknowledgeAlert
    \/ DeliverAlertCall
    \/ DeliverAttempt
    \/ DeliverFinish
    \/ CleanupExpiredAlerts
    \/ DeliveryTick

\* Generation, delivery, acknowledgement and expiry of alerts, interleaved at
\* the awaits of deliverAlert.
SpecDelivery == InitDelivery /\ [][NextDelivery]_vars

NextStall ==
    \/ AnalyzeTranscript
    \/ AnalyzeEmail
    \/ AddManualSignal
    \/ CalculateDealStatus
    \/ StallTick

\* The stall detector, called at the instants of StallClock.
SpecStall == Init /\ [][NextStall]_vars

\* The adapter with a transcript received and extractSignals not yet called.
InitKaia ==
    /\ EngineInit
    /\ AuditInit
    /\ AlertInit
    /\ StallInit
    /\ kaiaTranscript \in KaiaTranscripts
    /\ kaiaSignals = << >>
    /\ kaiaOp = "init"
    /\ WebInit

NextKaia == ExtractSignals

SpecKaia == InitKaia /\ [][NextKaia]_vars

\* The routes over a stage engine with one of the route configurations and a
\* prospect in one of the initial stages.
InitWebhook ==
    /\ config \in RouteConfigs
    /\ signals = <<>>
    /\ result = NoResult
    /\ decision = NoDecision
    /\ AuditInit
    /\ AlertInit
    /\ StallInit
    /\ KaiaInit
    /\ prospectStage \in InitialStages
    /\ pendingConfirmations = << >>
    /\ requests = [r \in Requests |-> NoRequest]
    /\ applied = << >>
    /\ webhookOp = WebhookOpResult("init")

NextWebhook ==
    \/ KaiaCall
    \/ \E r \in Requests : ConfirmStart(r)
    \/ \E r \in Requests : ConfirmUpdate(r)
    \/ \E r \in Requests : ConfirmLog(r)
    \/ \E r \in Requests : Reject(r)
    \/ RollbackRoute

\* Kaia calls, confirm and reject requests and rollbacks, interleaved at the
\* awaits of the confirm route.
SpecWebhook == InitWebhook /\ [][NextWebhook]_vars

(***************************************************************************)
(* Claims about the stage engine                                           *)
(***************************************************************************)
\* What the rule table's conditions ask of a signal list, stated on sets and on
\* the average: all required types present, one any-of type present, no
\* excluded type present, and the mean confidence of the signals of a required
\* or any-of type at least minConfidence.
ConditionsMet(rule, sigs) ==
    LET types == { sigs[i].type : i \in 1 .. Len(sigs) }
        wanted == (IF rule.hasRequired THEN rule.requiredSignals ELSE {})
                  \cup (IF rule.hasAny THEN rule.anySignals ELSE {})
        idx == { i \in 1 .. Len(sigs) : sigs[i].type \in wanted }
        upTo[k \in 0 .. Len(sigs)] ==
            IF k = 0 THEN 0
            ELSE upTo[k - 1] + (IF k \in idx THEN sigs[k].confidence ELSE 0)
    IN  /\ rule.hasRequired => rule.requiredSignals \subseteq types
        /\ rule.hasAny => rule.anySignals \cap types # {}
        /\ rule.hasExclude => rule.excludeSignals \cap types = {}
        /\ idx # {} => upTo[Len(sigs)] >= rule.minConfidence * Cardinality(idx)

SatisfiedRules(sigs) ==
    { i \in 1 .. Len(STAGE_RULES) : ConditionsMet(STAGE_RULES[i], sigs) }

IsResultOfRule(res, rule) ==
    /\ res.newStage = rule.stage
    /\ res.disposition = rule.disposition
    /\ res.flags = rule.flags
    /\ res.suggestedTasks = rule.suggestedTasks

\* C1: whenever mapToStage has returned for a signal list that satisfies some
\* rule, the result is that of a satisfied rule whose priority no other
\* satisfied rule exceeds.
C1_HighestPriorityRuleWins ==
    result # NoResult =>
        LET satisfied == SatisfiedRules(signals)
        IN  satisfied # {} =>
                \E i \in satisfied :
                    /\ \A j \in satisfied :
                          STAGE_RULES[j].priority <= STAGE_RULES[i].priority
                    /\ IsResultOfRule(result, STAGE_RULES[i])

\* Two rules are satisfied at once (CLOSED_LOST at 95 and a lower one) and
\* mapToStage has answered with the disqualifying rule.
C1_Witness ==
    /\ result # NoResult
    /\ Cardinality(SatisfiedRules(signals)) >= 2
    /\ result.newStage = "CLOSED_LOST"
    /\ result.flags = <<"disqualified">>

OutreachStages ==
    { "NEW", "ATTEMPTED", "WORKING", "QUALIFIED", "DEMO_SCHEDULED", "PROPOSAL",
      "NEGOTIATION", "CLOSED_WON", "CLOSED_LOST", "NURTURE" }

\* C3: mapToStage yields a result (a stage and a confidence in [0,1]) for the
\* signal list of every state, the empty list included, and when it has been
\* called on a list that satisfies no rule it has returned stage WORKING,
\* confidence 0.3 and the flag needs_manual_review.
C3_DefaultWhenNoRuleMatches ==
    /\ MapToStageOf(signals, config).newStage \in OutreachStages
    /\ MapToStageOf(signals, config).confidence \in 0 .. 100
    /\ (result # NoResult /\ SatisfiedRules(signals) = {}) =>
          /\ result.newStage = "WORKING"
          /\ result.confidence = 30
          /\ result.flags = <<"needs_manual_review">>

\* mapToStage has answered with the default for a full-length list that
\* satisfies no rule.
C3_Witness ==
    /\ result # NoResult
    /\ SatisfiedRules(signals) = {}
    /\ Len(signals) = MaxSignals
    /\ result.newStage = "WORKING"

RolledBackEntry == entries[IndexOfId(entries, auditOp'.originalAuditId)]

\* C4: a step in which rollback succeeds on a STAGE_CHANGE entry recording
\* A -> B leaves the old entries in place and appends exactly one entry, under
\* an id not in the log before: a ROLLBACK with previousValue B, newValue A and
\* rollbackOf the original's id; the RollbackResult carries A as restoredValue.
C4_RollbackIsSymmetric ==
    [][ ( /\ auditOp'.op = "rollback"
          /\ auditOp'.success
          /\ RolledBackEntry.action = "STAGE_CHANGE" ) =>
        ( /\ Len(entries') = Len(entries) + 1
          /\ SubSeq(entries', 1, Len(entries)) = entries
          /\ LET added == entries'[Len(entries')]
             IN  /\ added.id \notin EntryIds(entries)
                 /\ added.id = auditOp'.auditId
                 /\ added.action = "ROLLBACK"
                 /\ added.previousValue = RolledBackEntry.newValue
                 /\ added.newValue = RolledBackEntry.previousValue
                 /\ added.rollbackOf = RolledBackEntry.id
          /\ auditOp'.restoredValue = RolledBackEntry.previousValue ) ]_vars

\* rollback has just succeeded on a STAGE_CHANGE entry NEW -> WORKING and
\* returned NEW.
C4_Witness ==
    /\ auditOp.op = "rollback"
    /\ auditOp.success
    /\ auditOp.restoredValue = "NEW"
    /\ auditOp.previousValue = "WORKING"
    /\ \E i \in 1 .. Len(entries) :
          /\ entries[i].id = auditOp.originalAuditId
          /\ entries[i].action = "STAGE_CHANGE"

\* C5: a step in which rollback is called on an id that is not in the log, or
\* on an entry whose action is neither STAGE_CHANGE nor DISPOSITION_SET,
\* returns a failure and leaves the entries and both indexes as they were.
C5_IneligibleRollbackRefused ==
    [][ ( /\ auditOp'.op = "rollback"
          /\ \/ IndexOfId(entries, auditOp'.originalAuditId) = 0
             \/ RolledBackEntry.action \notin {"STAGE_CHANGE", "DISPOSITION_SET"} ) =>
        ( /\ ~ auditOp'.success
          /\ auditOp'.auditId = NoId
          /\ entries' = entries
          /\ entriesByCallId' = entriesByCallId
          /\ entriesByProspectId' = entriesByProspectId ) ]_vars

\* rollback has just been refused on a ROLLBACK entry of the log.
C5_Witness ==
    /\ auditOp.op = "rollback"
    /\ ~ auditOp.success
    /\ \E i \in 1 .. Len(entries) :
          /\ entries[i].id = auditOp.originalAuditId
          /\ entries[i].action = "ROLLBACK"

\* C6: every ROLLBACK entry of the log names, in rollbackOf, an entry that is
\* in the log and whose action is STAGE_CHANGE or DISPOSITION_SET.
C6_RollbackOfResolves ==
    \A i \in 1 .. Len(entries) :
        entries[i].action = "ROLLBACK" =>
            \E j \in 1 .. Len(entries) :
                /\ entries[j].id = entries[i].rollbackOf
                /\ entries[j].action \in {"STAGE_CHANGE", "DISPOSITION_SET"}

PendingAlertsOf(dealId) ==
    { i \in 1 .. Len(alerts) :
          /\ alerts[i].dealId = dealId
          /\ ~ alerts[i].acknowledged
          /\ alerts[i].expiresAt > now }

\* C7: in every reachable state each deal has at most one alert that is both
\* unacknowledged and unexpired, under the default 24 h window and 72 h
\* expiration.
C7_AtMostOneActiveAlert ==
    \A d \in DealIds : Cardinality(PendingAlertsOf(d)) <= 1

\* Whether the deal has, before the step, an unacknowledged alert created
\* less than alertWithinHours ago.
HasRecentUnacked(dealId) ==
    \E i \in 1 .. Len(alerts) :
        /\ alerts[i].dealId = dealId
        /\ ~ alerts[i].acknowledged
        /\ now - alerts[i].createdAt < alertConfig.alertWithinHours

\* C8: a step in which generateAlert is called with a stalled status for a
\* deal holding an unacknowledged alert younger than alertWithinHours returns
\* null and leaves the alert store and the deal index as they were; this
\* holds of every such step, so of each call of a repeated series.
C8_SuppressionIsIdempotent ==
    [][ ( /\ alertOp'.op = "generateAlert"
          /\ alertOp'.isStalled
          /\ HasRecentUnacked(alertOp'.dealId) ) =>
        ( /\ alertOp'.returned = NoId
          /\ alerts' = alerts
          /\ alertsByDeal' = alertsByDeal ) ]_vars

\* generateAlert has just returned null for the second time in a row for a
\* stalled deal that holds an unacknowledged alert made 23 hours ago.
C8_Witness ==
    /\ alertOp.op = "generateAlert"
    /\ alertOp.isStalled
    /\ alertOp.again
    /\ alertOp.returned = NoId
    /\ \E i \in 1 .. Len(alerts) :
          /\ alerts[i].dealId = alertOp.dealId
          /\ ~ alerts[i].acknowledged
          /\ now - alerts[i].createdAt = 23

\* C9: a step in which generateAlert is called with a stalled status for a
\* deal that has alerts, all of them acknowledged, stores one new
\* unacknowledged alert for the deal and returns it, whatever the age of the
\* acknowledged alerts.
C9_AcknowledgedAlertsDoNotSuppress ==
    [][ ( /\ alertOp'.op = "generateAlert"
          /\ alertOp'.isStalled
          /\ \E i \in 1 .. Len(alerts) : alerts[i].dealId = alertOp'.dealId
          /\ \A i \in 1 .. Len(alerts) :
                alerts[i].dealId = alertOp'.dealId => alerts[i].acknowledged ) =>
        ( /\ alertOp'.returned # NoId
          /\ alertOp'.returned \notin EntryIds(alerts)
          /\ Len(alerts') = Len(alerts) + 1
          /\ SubSeq(alerts', 1, Len(alerts)) = alerts
          /\ LET added == alerts'[Len(alerts')]
             IN  /\ added.id = alertOp'.returned
                 /\ added.dealId = alertOp'.dealId
                 /\ ~ added.acknowledged
                 /\ added.createdAt = now
          /\ alertsByDeal' =
                 [alertsByDeal EXCEPT ![alertOp'.dealId] = Append(@, alertOp'.returned)] ) ]_vars

\* generateAlert has just created an alert for a deal whose earlier alert was
\* made and acknowledged within the same hour.
C9_Witness ==
    /\ alertOp.op = "generateAlert"
    /\ alertOp.returned # NoId
    /\ \E i \in 1 .. Len(alerts) :
          /\ alerts[i].dealId = alertOp.dealId
          /\ alerts[i].id # alertOp.returned
          /\ alerts[i].acknowledged
          /\ alerts[i].createdAt = now
(***************************************************************************)
(* Claims about the audit indexes and the export                           *)
(***************************************************************************)
\* The ids an index holds, over all its keys.
IndexedIds(index) ==
    UNION { { index[k][i] : i \in 1 .. Len(index[k]) } : k \in DOMAIN index }

\* C11: in every reachable state of the audit log, every id held in the
\* by-call index and in the by-prospect index is the id of an entry of the
\* entry store.
C11_NoDanglingIndexIds ==
    /\ IndexedIds(entriesByCallId) \subseteq EntryIds(entries)
    /\ IndexedIds(entriesByProspectId) \subseteq EntryIds(entries)

\* The service that importFromFile makes of an empty one from the export of
\* the current log.
RoundTrip == ImportLoop(EmptyStore, ExportToJson(entries))

\* C12: exporting the log and importing the result into an empty service
\* yields the entries of the export, in its order, and getEntriesForCall and
\* getEntriesForProspect return there what they return in the original log.
C12_ExportImportRoundTrip ==
    /\ RoundTrip.entries = SortByTimestamp(entries)
    /\ \A c \in CallIds :
          GetEntriesForCall(RoundTrip, c) = GetEntriesForCall(CurrentStore, c)
    /\ \A q \in ProspectIds :
          GetEntriesForProspect(RoundTrip, q) = GetEntriesForProspect(CurrentStore, q)
(***************************************************************************)
(* Claims about the delivery and the expiry of alerts                      *)
(***************************************************************************)
\* The channels of the attempts that returned true, in the order attempted.
ChannelsThatReturnedTrue(attempts) ==
    LET succeeded == SelectSeq(attempts, LAMBDA a : a.outcome = "true")
    IN  [k \in 1 .. Len(succeeded) |-> succeeded[k].channel]

\* C13: a deliverAlert call that found its alert unacknowledged has, once it
\* has returned, attempted each enabled channel once, in order, whatever the
\* earlier attempts came to (false or a rejection); it returns whether some
\* attempt returned true, and the alert's deliveredVia is the list of the
\* channels whose attempt returned true.
C13_EveryChannelAttempted ==
    (delivery.pc = "done" /\ delivery.entered) =>
        /\ Len(delivery.attempts) = Len(alertConfig.enabledChannels)
        /\ \A k \in 1 .. Len(delivery.attempts) :
              delivery.attempts[k].channel = alertConfig.enabledChannels[k]
        /\ delivery.result = (ChannelsThatReturnedTrue(delivery.attempts) # <<>>)
        /\ \A i \in 1 .. Len(alerts) :
              alerts[i].id = delivery.alertId =>
                  alerts[i].deliveredVia = ChannelsThatReturnedTrue(delivery.attempts)

\* A call has returned whose first channel rejected and whose second channel
\* delivered: the alert records the second channel alone.
C13_Witness ==
    /\ delivery.pc = "done"
    /\ delivery.entered
    /\ Len(delivery.attempts) = 2
    /\ delivery.attempts[1].outcome = "throw"
    /\ delivery.attempts[2].outcome = "true"
    /\ \E i \in 1 .. Len(alerts) :
          /\ alerts[i].id = delivery.alertId
          /\ alerts[i].deliveredVia = <<delivery.attempts[2].channel>>

\* C14: no step takes acknowledged away from an alert that stays in the
\* store, and a step in which deliverAlert is called for an acknowledged
\* alert returns without entering the loop over the channels and leaves the
\* alert, deliveredVia and deliveredAt included, as it was.
C14_AcknowledgedIsTerminal ==
    [][ /\ \A i \in 1 .. Len(alerts), j \in 1 .. Len(alerts') :
              (alerts[i].id = alerts'[j].id /\ alerts[i].acknowledged) =>
                  alerts'[j].acknowledged
        /\ ( /\ alertOp'.op = "deliverAlert"
             /\ delivery.pc # "attempting"
             /\ \E i \in 1 .. Len(alerts) :
                   alerts[i].id = alertOp'.returned /\ alerts[i].acknowledged ) =>
           ( /\ delivery'.pc = "done"
             /\ ~ delivery'.entered
             /\ delivery'.attempts = <<>>
             /\ alerts' = alerts ) ]_vars

\* deliverAlert has just returned true without an attempt for an alert that
\* was delivered and then acknowledged.
C14_Witness ==
    /\ alertOp.op = "deliverAlert"
    /\ delivery.pc = "done"
    /\ ~ delivery.entered
    /\ delivery.result
    /\ \E i \in 1 .. Len(alerts) :
          /\ alerts[i].id = delivery.alertId
          /\ alerts[i].acknowledged
          /\ alerts[i].deliveredVia # <<>>

\* C15: a step of cleanupExpiredAlerts removes from the alert store and from
\* the deal index the alerts whose expiresAt is earlier than now and no
\* other, leaves the alerts that stay unchanged and in order, and returns the
\* number of alerts removed.
C15_CleanupRemovesExactlyExpired ==
    [][ alertOp'.op = "cleanupExpiredAlerts" =>
        LET stays(id) ==
                \E i \in 1 .. Len(alerts) : alerts[i].id = id /\ alerts[i].expiresAt >= now
        IN  /\ alerts' = SelectSeq(alerts, LAMBDA a : a.expiresAt >= now)
            /\ \A d \in DealIds :
                  alertsByDeal'[d] = SelectSeq(alertsByDeal[d], stays)
            /\ alertOp'.cleaned = Len(alerts) - Len(alerts') ]_vars

\* cleanupExpiredAlerts has just removed one alert and kept the alert that
\* expires at this very hour.
C15_Witness ==
    /\ alertOp.op = "cleanupExpiredAlerts"
    /\ alertOp.cleaned = 1
    /\ \E i \in 1 .. Len(alerts) : alerts[i].expiresAt = now
(***************************************************************************)
(* Claims about the stall detector                                         *)
(***************************************************************************)
\* The signals of a deal that calculateDealStatus would score now.
ValidSignalsNow(dealId) ==
    ValidSignals(stallConfig, GetSignalsForDeal(stallSignals, dealId), now)

\* The signals that could be stored next for a deal: those an analysis of a
\* transcript would make now, and those handed to addSignal.
SignalsToAdd(dealId) ==
    LET analysed ==
            UNION { LET new == AnalysisOf(stallConfig, nextSignalId, tr.dealId,
                                          "CALL_TRANSCRIPT", tr.id, tr.callDate,
                                          tr.transcript, now)
                    IN  { new[i] : i \in 1 .. Len(new) } : tr \in Transcripts }
    IN  { sig \in analysed \cup ManualSignals :
              /\ sig.dealId = dealId
              /\ sig.id \notin EntryIds(stallSignals)
              /\ now - sig.sourceTimestamp <= stallConfig.maxSignalAgeHours
              /\ sig.timeDecayedConfidence > 0 }

\* C16: the stallScore calculateDealStatus has stored for a deal lies in
\* [0, 100], whatever signals are stored (those handed to addSignal
\* included), and a deal's score does not go down when one more valid signal
\* of positive timeDecayedConfidence is added.
C16_StallScoreBoundedAndMonotone ==
    \A d \in StallDealIds :
        /\ dealStatuses[d].stallScore >= 0
        /\ dealStatuses[d].stallScore <= 100 * Millionths
        /\ \A sig \in SignalsToAdd(d) :
              CalculateStallScore(Append(ValidSignalsNow(d), sig), now)
                  >= CalculateStallScore(ValidSignalsNow(d), now)

\* C17: under the default thresholds, calculateDealStatus gives severity
\* MEDIUM or higher to a deal whose only valid signal has a confidence
\* between 0.6 and 0.7 and a source timestamp less than 24 hours old.
C17_ModerateRecentSignalIsMedium ==
    \A d \in StallDealIds :
        ( /\ stallOp.op = "calculateDealStatus"
          /\ stallOp.dealId = d
          /\ Len(ValidSignalsNow(d)) = 1
          /\ ValidSignalsNow(d)[1].baseConfidence \in 60 .. 70
          /\ now - ValidSignalsNow(d)[1].sourceTimestamp \in 0 .. 23 ) =>
            dealStatuses[d].severity \in {"MEDIUM", "HIGH", "CRITICAL"}

\* The confidences of the patterns and the ages (hours) the decay is compared at.
PatternConfidences ==
    { STALL_PATTERNS[p].baseConfidence : p \in 1 .. Len(STALL_PATTERNS) }
DecayAges == {-48, -12, 0, 12, 24, 36, 48, 60, 96, 144, 168, 192}

\* C18: calculateTimeDecayedConfidence returns base for a signal of age 0 and
\* base / 2 for a signal as old as timeDecayHalfLifeHours, and for a fixed
\* base it returns no more for an older signal than for a younger one; the
\* stored signals that an analysis made carry the value it returned.
C18_TimeDecay ==
    /\ \A base \in PatternConfidences :
          /\ CalculateTimeDecayedConfidence(stallConfig, base, now, now)
                 = base * QuarterPowers[1]
          /\ 2 * CalculateTimeDecayedConfidence(
                     stallConfig, base, now - stallConfig.timeDecayHalfLifeHours, now)
                 = base * QuarterPowers[1]
          /\ \A younger \in DecayAges, older \in DecayAges :
                younger <= older =>
                    CalculateTimeDecayedConfidence(stallConfig, base, now - older, now)
                        <= CalculateTimeDecayedConfidence(stallConfig, base, now - younger, now)
    /\ \A i \in 1 .. Len(stallSignals) :
          stallSignals[i].phraseMatches # <<>> =>
              stallSignals[i].timeDecayedConfidence =
                  CalculateTimeDecayedConfidence(
                      stallConfig, stallSignals[i].baseConfidence,
                      stallSignals[i].sourceTimestamp, stallSignals[i].detectedAt)

\* The store holds a signal analysed one half-life after its source: its
\* decayed confidence is half its base; and a signal analysed at age 0.
C18_Witness ==
    /\ \E i \in 1 .. Len(stallSignals) :
          /\ stallSignals[i].phraseMatches # <<>>
          /\ stallSignals[i].detectedAt - stallSignals[i].sourceTimestamp
                 = stallConfig.timeDecayHalfLifeHours
          /\ 2 * stallSignals[i].timeDecayedConfidence
                 = stallSignals[i].baseConfidence * QuarterPowers[1]
    /\ \E j \in 1 .. Len(stallSignals) :
          /\ stallSignals[j].phraseMatches # <<>>
          /\ stallSignals[j].detectedAt = stallSignals[j].sourceTimestamp
          /\ stallSignals[j].timeDecayedConfidence
                 = stallSignals[j].baseConfidence * QuarterPowers[1]

\* C19: the signal store holds at most one signal for each pair of a source
\* document and a phrase category.
C19_OneSignalPerDocumentAndCategory ==
    \A i \in 1 .. Len(stallSignals), j \in 1 .. Len(stallSignals) :
        ( /\ i # j
          /\ stallSignals[i].phraseMatches # <<>>
          /\ stallSignals[j].phraseMatches # <<>>
          /\ stallSignals[i].sourceId = stallSignals[j].sourceId ) =>
            stallSignals[i].phraseMatches[1].category
                # stallSignals[j].phraseMatches[1].category
(***************************************************************************)
(* Claims about the Kaia adapter                                           *)
(***************************************************************************)
\* C20: the list extractSignals returns holds a LIVE_CONVERSATION signal only
\* for a transcript with more than one distinct speakerId and a duration
\* above 30, and that signal is the one made from speakers and duration
\* (confidence 0.95), never one made by matching a pattern of SIGNAL_PATTERNS
\* against a segment or the joined text.
C20_LiveConversationOnlyFromSpeakersAndDuration ==
    \A i \in 1 .. Len(kaiaSignals) :
        ( kaiaOp = "extractSignals" /\ kaiaSignals[i].type = "LIVE_CONVERSATION" ) =>
            /\ HasMultipleSpeakers(kaiaTranscript)
            /\ HasMeaningfulLength(kaiaTranscript)
            /\ kaiaSignals[i].confidence = 95

\* The segments of the transcript whose text matches a pattern of the type.
SegmentsMatching(type) ==
    { i \in 1 .. Len(kaiaTranscript.transcript) :
          \E p \in 1 .. Len(SIGNAL_PATTERNS) :
              /\ SIGNAL_PATTERNS[p].type = type
              /\ FirstMatching(SIGNAL_PATTERNS[p], kaiaTranscript.transcript[i].text) # 0 }

\* The base confidence SIGNAL_PATTERNS gives a type.
BaseConfidenceOf(type) ==
    LET p == CHOOSE q \in 1 .. Len(SIGNAL_PATTERNS) : SIGNAL_PATTERNS[q].type = type
    IN  SIGNAL_PATTERNS[p].baseConfidence

\* C21: the list extractSignals returns holds at most one signal per type and
\* every confidence lies in [0, 1]; a type matched in several segments has one
\* signal whose confidence is the base raised by 0.1 per further segment and
\* capped at 1, and a signal added by the whole-text pass (no timestamp) has
\* a type that no segment matched.
C21_OneSignalPerTypeConfidenceInRange ==
    kaiaOp = "extractSignals" =>
        /\ \A i \in 1 .. Len(kaiaSignals), j \in 1 .. Len(kaiaSignals) :
              i # j => kaiaSignals[i].type # kaiaSignals[j].type
        /\ \A i \in 1 .. Len(kaiaSignals) :
              /\ kaiaSignals[i].confidence >= 0
              /\ kaiaSignals[i].confidence <= FullConfidence
              /\ kaiaSignals[i].timestamp # NoTime =>
                    LET further == Cardinality(SegmentsMatching(kaiaSignals[i].type)) - 1
                        raised  == BaseConfidenceOf(kaiaSignals[i].type) + BoostStep * further
                    IN  /\ further >= 0
                        /\ kaiaSignals[i].confidence =
                               IF raised < FullConfidence THEN raised ELSE FullConfidence
              /\ ( kaiaSignals[i].timestamp = NoTime
                   /\ kaiaSignals[i].type # "LIVE_CONVERSATION" ) =>
                    SegmentsMatching(kaiaSignals[i].type) = {}

\* A type matched in two segments has one signal, raised to the cap, and the
\* whole-text pass has added a type that no single segment matched.
C21_Witness ==
    /\ kaiaOp = "extractSignals"
    /\ \E i \in 1 .. Len(kaiaSignals) :
          /\ Cardinality(SegmentsMatching(kaiaSignals[i].type)) = 2
          /\ kaiaSignals[i].confidence = FullConfidence
    /\ \E j \in 1 .. Len(kaiaSignals) :
          /\ kaiaSignals[j].timestamp = NoTime
          /\ kaiaSignals[j].confidence = (BaseConfidenceOf(kaiaSignals[j].type) * 8) \div 10

(***************************************************************************)
(* Claims about repeated rollbacks, repeated deliveries and passing time   *)
(***************************************************************************)
\* The ROLLBACK entries of the log that name an audit id as their rollbackOf.
RollbacksOf(auditId) ==
    { i \in 1 .. Len(entries) :
          entries[i].action = "ROLLBACK" /\ entries[i].rollbackOf = auditId }

\* C28: for every audit entry the log holds at most one ROLLBACK entry whose
\* rollbackOf is that entry's id.
C28_AtMostOneRollbackPerEntry ==
    \A i \in 1 .. Len(entries) : Cardinality(RollbacksOf(entries[i].id)) <= 1

\* C29: for every stored alert, deliveredAt is set exactly when deliveredVia
\* is not empty, whatever deliverAlert calls have been made.
C29_DeliveredAtIffDeliveredVia ==
    \A i \in 1 .. Len(alerts) :
        (alerts[i].deliveredAt # NoTime) <=> (alerts[i].deliveredVia # <<>>)

\* C30: the service never changes the timeDecayedConfidence of a stored
\* signal (only a caller handing addSignal another signal under the same id
\* replaces it), and when time passes over an unchanged signal store the stallScore that
\* calculateDealStatus returns for a deal is no higher after than before.
C30_StallScoreNeverRisesWithTime ==
    [][ /\ \A i \in 1 .. Len(stallSignals) :
              ( /\ stallOp'.op # "addSignal"
                /\ i <= Len(stallSignals')
                /\ stallSignals'[i].id = stallSignals[i].id ) =>
                  stallSignals'[i].timeDecayedConfidence
                      = stallSignals[i].timeDecayedConfidence
        /\ ( stallSignals' = stallSignals /\ now' > now ) =>
              \A d \in StallDealIds :
                  DealStatusOf(stallConfig, stallSignals, d, now').stallScore
                      <= DealStatusOf(stallConfig, stallSignals, d, now).stallScore
      ]_vars

(***************************************************************************)
(* Claims about requests in flight at the same time                        *)
(***************************************************************************)
\* C27: generateAlert runs from its check to its store without an await, so
\* calls for the same stalled deal made while other requests are in flight
\* (here inside a deliverAlert call that has not returned) store at most one
\* alert inside the alert window: two stored alerts of a deal, the earlier
\* one unacknowledged, were created at least alertWithinHours apart.
C27_ConcurrentGenerateStoresOneAlert ==
    \A i \in 1 .. Len(alerts), j \in 1 .. Len(alerts) :
        ( /\ i < j
          /\ alerts[i].dealId = alerts[j].dealId
          /\ ~ alerts[i].acknowledged ) =>
            alerts[j].createdAt - alerts[i].createdAt >= alertConfig.alertWithinHours

\* generateAlert has returned null for a stalled deal while the deliverAlert
\* call made for the deal's only alert is inside its loop over the channels.
C27_Witness ==
    /\ alertOp.op = "generateAlert"
    /\ alertOp.isStalled
    /\ alertOp.returned = NoId
    /\ delivery.pc = "attempting"
    /\ Len(alerts) = 1
    /\ alerts[1].dealId = alertOp.dealId
    /\ delivery.alertId = alerts[1].id

(***************************************************************************)
(* Claims about the webhook routes                                         *)
(***************************************************************************)
\* C24: in POST /kaia/call, extractCallData and mapToStage are reached only
\* for a request whose signature verifyWebhookSignature checked and found
\* valid.
C24_EngineReachedOnlyWhenVerified ==
    webhookOp.reachedEngine => webhookOp.verified

\* C25: the branch the Kaia handler takes is the one that corresponds to the
\* action getActionDecision returns for the same confidence and configuration:
\* the update for AUTO_UPDATE, a pending confirmation for
\* FLAG_FOR_CONFIRMATION, logging only for NO_ACTION.
C25_BranchMatchesActionDecision ==
    webhookOp.branch # "none" =>
        /\ webhookOp.branch = "auto-update" <=> webhookOp.action = "AUTO_UPDATE"
        /\ webhookOp.branch = "confirmation" <=>
               webhookOp.action = "FLAG_FOR_CONFIRMATION"
        /\ webhookOp.branch = "log only" <=> webhookOp.action = "NO_ACTION"

\* The audit entries of the last Kaia call that record its stage change.
StageChangeEntriesOfCall ==
    { i \in 1 .. Len(entries) :
        /\ \E k \in 1 .. Len(webhookOp.auditIds) : entries[i].id = webhookOp.auditIds[k]
        /\ entries[i].action = "STAGE_CHANGE" }

\* C22: when updateProspect reports failure in the auto-update path, the
\* attempted stage change is in the audit log and no entry presents it as an
\* applied automated STAGE_CHANGE unless the log also records the failure.
C22_FailedUpdateNotedInAuditLog ==
    (webhookOp.branch = "auto-update" /\ ~ webhookOp.updateSuccess) =>
        /\ StageChangeEntriesOfCall # {}
        /\ \A i \in StageChangeEntriesOfCall :
              \/ ~ entries[i].automated
              \/ \E j \in 1 .. Len(entries) :
                    /\ entries[j].action = "ERROR"
                    /\ entries[j].callId = entries[i].callId

\* C23: every stage change the routes apply to the prospect is a transition
\* isValidTransition allows from the stage the prospect was in, and a
\* prospect in CLOSED_WON is never moved to another stage.
C23_AppliedChangesAreValidTransitions ==
    \A i \in 1 .. Len(applied) :
        /\ IsValidTransition(applied[i].from, applied[i].to)
        /\ applied[i].from = "CLOSED_WON" => applied[i].to = "CLOSED_WON"

\* The requests that applied an external update for the pending confirmation
\* stored with audit id a, and those that wrote its resolution to the log.
UpdatesFor(a) ==
    { r \in Requests :
        /\ requests[r].route = "confirm"
        /\ requests[r].pending.auditId = a
        /\ \/ requests[r].pc = "logging"
           \/ requests[r].pc = "done" /\ requests[r].status = 200 }

ResolutionsFor(a) ==
    { r \in Requests :
        /\ requests[r].route \in {"confirm", "reject"}
        /\ requests[r].pending.auditId = a
        /\ requests[r].pc = "done"
        /\ requests[r].status = 200 }

\* C26: each pending confirmation is resolved at most once: at most one
\* external update is applied for it and at most one resolution entry
\* (confirmed STAGE_CHANGE or stage_change_rejected FLAG_SET) is written, also
\* with several confirm and reject requests in flight.
C26_PendingResolvedAtMostOnce ==
    \A r \in Requests :
        requests[r].pending.auditId # NoId =>
            /\ Cardinality(UpdatesFor(requests[r].pending.auditId)) <= 1
            /\ Cardinality(ResolutionsFor(requests[r].pending.auditId)) <= 1

====
